---------------------------- MODULE Spec2Model ----------------------------
(***************************************************************************)
(* A model of xint-rs's two front ends:                                    *)
(*   - src/commands/tui.rs : the interactive dashboard (menu resolver,     *)
(*     raw-mode selection loop, output scrollback);                        *)
(*   - src/mcp.rs          : the MCP JSON-RPC server over stdio (policy    *)
(*     gate, budget gate, tool dispatch, Package API forwarding).          *)
(*                                                                         *)
(* Text is modelled as a sequence of one-character strings, so that        *)
(* trimming, case folding and comparison are computed as the code computes *)
(* them.  Option<T> is modelled as a sequence of length 0 (None) or 1      *)
(* (Some).                                                                 *)
(***************************************************************************)
EXTENDS Integers, Sequences, FiniteSets, TLC

VARIABLES
  \* ---- pure-function harness (normalize_choice) ----
  fnPc,      \* "in": an input is chosen, "out": the function has been applied
  fnIn,      \* the input: [raw |-> text, option |-> index of the option it was derived from, 0 if none]
  fnOut,     \* the function's result
  \* ---- tui.rs: SessionState ----
  last_output_lines,  \* SessionState.last_output_lines: the retained output history
  pushed,             \* history variable: lines pushed onto the history since it was last cleared
  \* ---- mcp.rs: MCPServer and its surroundings ----
  initialized,        \* MCPServer.initialized
  policy_mode,        \* MCPServer.policy_mode
  enforce_budget,     \* MCPServer.enforce_budget
  spent,              \* the cost tracker's spend of the day, read by costs::check_budget
  api_base_url_set,   \* whether XINT_PACKAGE_API_BASE_URL is set and non-blank
  pc,                 \* run_stdio: "read" (at next_line), "handle" (a line is held), "done"
  cur,                \* the line read and not yet handled (Option)
  last,               \* history variable: what handling the last line did, and how the
                      \* Package API answered if a request was sent (Option)
  nRead,              \* history variable: lines read so far
  nOut,               \* response lines written to stdout so far
  expOut,             \* history variable: lines read so far that are no `initialized` message
  \* ---- tui.rs: the interactive session ----
  is_tty,             \* stdin and stdout are both terminals
  raw_mode,           \* the terminal is in raw mode
  tuiPc,              \* run: "loop" (about to select), "select" (inside the raw-mode key loop),
                      \*      "chosen" (a choice was returned), "exited" (run has returned)
  selRet,             \* what select_option_interactive returned last (Option<Result>)
  active_index,       \* UiState.active_index (0-based)
  tab,                \* UiState.tab
  output_offset,      \* UiState.output_offset
  output_search,      \* UiState.output_search
  last_status,        \* SessionState.last_status
  run_result,         \* what run returned (Option<Result>), None while it is running
  last_search,        \* SessionState.last_search (Option)
  last_location,      \* SessionState.last_location (Option)
  last_username,      \* SessionState.last_username (Option)
  last_tweet_ref,     \* SessionState.last_tweet_ref (Option)
  last_article_url,   \* SessionState.last_article_url (Option)
  last_command,       \* SessionState.last_command (Option)
  typed_last,         \* history variable: what was typed at the prompt of the last arm of run (Option)
  sub_args,           \* history variable: the `args` the last arm of run passed to run_subcommand (Option)
  stdin_eof,          \* standard input, when it is no terminal, is at end of file: read_line yields Ok(0)
  \* ---- tui.rs: one call of run_subcommand ----
  child_prog,         \* the writes the child makes if it runs to its end: a sequence of [stream, text]
  child_pos,          \* how many of them it has made
  child_exited,       \* the child has exited or was killed
  exit_status,        \* run_subcommand's `status`: what try_wait yielded at the break (Option)
  pipe,               \* per stream ("out", "err"): the lines written and not yet read
  held,               \* per stream: the line its reader thread has read and not yet sent (Option)
  reader,             \* per stream: "reading" or "done" (the thread has left its loop)
  channel,            \* the mpsc channel: lines sent and not yet received
  spinner_index,      \* run_subcommand's spinner_index, modulo the number of frames
  sub_result,         \* what run_subcommand returned last (Option<Result>)
  left_at_exit        \* history variable: lines written and not yet appended when try_wait saw the exit

fnVars == << fnPc, fnIn, fnOut >>
outVars == << last_output_lines, pushed >>

mcpVars == << initialized, policy_mode, enforce_budget, spent, api_base_url_set,
             pc, cur, last, nRead, nOut, expOut >>

tuiVars == << is_tty, raw_mode, tuiPc, selRet, active_index, tab, output_offset,
             output_search, last_status, run_result >>

\* The remembered last-used values.
rememberedVars == << last_search, last_location, last_username, last_tweet_ref,
                    last_article_url, last_command >>

sessVars == << last_search, last_location, last_username, last_tweet_ref,
              last_article_url, last_command, typed_last, sub_args, stdin_eof >>

subVars == << child_prog, child_pos, child_exited, exit_status, pipe, held, reader, channel,
             spinner_index, sub_result, left_at_exit >>

vars == << fnPc, fnIn, fnOut, last_output_lines, pushed,
           initialized, policy_mode, enforce_budget, spent, api_base_url_set,
           pc, cur, last, nRead, nOut, expOut,
           is_tty, raw_mode, tuiPc, selRet, active_index, tab, output_offset,
           output_search, last_status, run_result,
           last_search, last_location, last_username, last_tweet_ref,
           last_article_url, last_command, typed_last, sub_args, stdin_eof,
           child_prog, child_pos, child_exited, exit_status, pipe, held, reader, channel,
           spinner_index, sub_result, left_at_exit >>

\* The parts of the state a specification does not exercise stay as constructed.
FnIdle == fnPc = "off" /\ fnIn = << >> /\ fnOut = << >>
OutIdle == last_output_lines = << >> /\ pushed = 0
McpIdle ==
  /\ initialized = FALSE /\ policy_mode = "read_only" /\ enforce_budget = TRUE
  /\ spent = 0 /\ api_base_url_set = FALSE
  /\ pc = "off" /\ cur = << >> /\ last = << >>
  /\ nRead = 0 /\ nOut = 0 /\ expOut = 0
TuiIdle ==
  /\ is_tty = FALSE /\ raw_mode = FALSE /\ tuiPc = "off" /\ selRet = << >>
  /\ active_index = 0 /\ tab = "Output" /\ output_offset = 0
  /\ output_search = << >> /\ last_status = << >> /\ run_result = << >>
SessIdle ==
  /\ last_search = << >> /\ last_location = << >> /\ last_username = << >>
  /\ last_tweet_ref = << >> /\ last_article_url = << >> /\ last_command = << >>
  /\ typed_last = << >> /\ sub_args = << >> /\ stdin_eof = FALSE
SubIdle ==
  /\ child_prog = << >> /\ child_pos = 0 /\ child_exited = FALSE /\ exit_status = << >>
  /\ pipe = [s \in {"out", "err"} |-> << >>]
  /\ held = [s \in {"out", "err"} |-> << >>]
  /\ reader = [s \in {"out", "err"} |-> "done"]
  /\ channel = << >> /\ spinner_index = 0 /\ sub_result = << >>
  /\ left_at_exit = 0

-----------------------------------------------------------------------------
(* Text helpers: str::trim, str::to_ascii_lowercase                        *)

None == << >>
Some(x) == << x >>

LowerAlpha == <<"a","b","c","d","e","f","g","h","i","j","k","l","m","n","o","p","q","r","s","t","u","v","w","x","y","z">>
UpperAlpha == <<"A","B","C","D","E","F","G","H","I","J","K","L","M","N","O","P","Q","R","S","T","U","V","W","X","Y","Z">>

\* White_Space characters that str::trim removes (the ASCII ones).
Whitespace == {" ", "\t", "\n"}

LowerOf == [c \in { UpperAlpha[i] : i \in 1..26 } |->
              LowerAlpha[CHOOSE i \in 1..26 : UpperAlpha[i] = c]]

UpperOf == [c \in { LowerAlpha[i] : i \in 1..26 } |->
              UpperAlpha[CHOOSE i \in 1..26 : LowerAlpha[i] = c]]

char_to_ascii_lowercase(c) == IF c \in DOMAIN LowerOf THEN LowerOf[c] ELSE c

char_to_ascii_uppercase(c) == IF c \in DOMAIN UpperOf THEN UpperOf[c] ELSE c

to_ascii_lowercase(s) == [i \in 1..Len(s) |-> char_to_ascii_lowercase(s[i])]

RECURSIVE trim_start(_)
trim_start(s) ==
  IF s # << >> /\ Head(s) \in Whitespace THEN trim_start(Tail(s)) ELSE s

RECURSIVE trim_end(_)
trim_end(s) ==
  IF s # << >> /\ s[Len(s)] \in Whitespace
    THEN trim_end(SubSeq(s, 1, Len(s) - 1))
    ELSE s

trim(s) == trim_end(trim_start(s))

-----------------------------------------------------------------------------
(* tui.rs: the static menu                                                 *)

MENU_OPTIONS ==
  << [ key     |-> <<"1">>,
       label   |-> <<"S","e","a","r","c","h">>,
       aliases |-> << <<"s","e","a","r","c","h">>,
                      <<"s">> >>,
       hint    |-> <<"k","e","y","w","o","r","d",","," ","t","o","p","i","c",","," ","o","r"," ","b","o","o","l","e","a","n"," ","q","u","e","r","y">> ],
     [ key     |-> <<"2">>,
       label   |-> <<"T","r","e","n","d","s">>,
       aliases |-> << <<"t","r","e","n","d","s">>,
                      <<"t","r","e","n","d">>,
                      <<"t">> >>,
       hint    |-> <<"l","o","c","a","t","i","o","n"," ","n","a","m","e"," ","o","r"," ","b","l","a","n","k"," ","f","o","r"," ","g","l","o","b","a","l">> ],
     [ key     |-> <<"3">>,
       label   |-> <<"P","r","o","f","i","l","e">>,
       aliases |-> << <<"p","r","o","f","i","l","e">>,
                      <<"u","s","e","r">>,
                      <<"p">> >>,
       hint    |-> <<"u","s","e","r","n","a","m","e"," ","(","w","i","t","h","o","u","t"," ","@",")">> ],
     [ key     |-> <<"4">>,
       label   |-> <<"T","h","r","e","a","d">>,
       aliases |-> << <<"t","h","r","e","a","d">>,
                      <<"t","h">> >>,
       hint    |-> <<"t","w","e","e","t"," ","i","d"," ","o","r"," ","t","w","e","e","t"," ","u","r","l">> ],
     [ key     |-> <<"5">>,
       label   |-> <<"A","r","t","i","c","l","e">>,
       aliases |-> << <<"a","r","t","i","c","l","e">>,
                      <<"a">> >>,
       hint    |-> <<"a","r","t","i","c","l","e"," ","u","r","l"," ","o","r"," ","t","w","e","e","t"," ","u","r","l">> ],
     [ key     |-> <<"6">>,
       label   |-> <<"H","e","l","p">>,
       aliases |-> << <<"h","e","l","p">>,
                      <<"h">>,
                      <<"?">> >>,
       hint    |-> <<"s","h","o","w"," ","f","u","l","l"," ","C","L","I"," ","h","e","l","p">> ],
     [ key     |-> <<"0">>,
       label   |-> <<"E","x","i","t">>,
       aliases |-> << <<"e","x","i","t">>,
                      <<"q","u","i","t">>,
                      <<"q">> >>,
       hint    |-> <<"c","l","o","s","e"," ","i","n","t","e","r","a","c","t","i","v","e"," ","m","o","d","e">> ] >>

NumOptions == Len(MENU_OPTIONS)

SeqRange(s) == { s[i] : i \in 1..Len(s) }

\* normalize_choice, as it would be without the case folding of line 246.
normalize_choice_case_sensitive(raw) ==
  LET value == trim(raw)
      hits  == { i \in 1..NumOptions :
                   \/ MENU_OPTIONS[i].key = value
                   \/ value \in SeqRange(MENU_OPTIONS[i].aliases) }
  IN  IF value = << >> THEN None
      ELSE IF hits = {} THEN None
      ELSE Some(MENU_OPTIONS[CHOOSE i \in hits : \A j \in hits : i <= j].key)

\* tui.rs normalize_choice: trim, fold to ASCII lower case, then the first
\* option (in declaration order) whose key or one of whose aliases equals it.
normalize_choice(raw) ==
  LET value == to_ascii_lowercase(trim(raw))
      hits  == { i \in 1..NumOptions :
                   \/ MENU_OPTIONS[i].key = value
                   \/ value \in SeqRange(MENU_OPTIONS[i].aliases) }
  IN  IF value = << >> THEN None
      ELSE IF hits = {} THEN None
      ELSE Some(MENU_OPTIONS[CHOOSE i \in hits : \A j \in hits : i <= j].key)

-----------------------------------------------------------------------------
(* Harness for normalize_choice: the inputs are every key and alias of     *)
(* MENU_OPTIONS in every letter case with whitespace around it, and texts  *)
(* that are no key and no alias.                                           *)

\* Longest run of whitespace put before and after a text.
MaxPad == 1

Pads == UNION { [1..k -> Whitespace] : k \in 0..MaxPad }

CaseVariants(s) ==
  { [i \in 1..Len(s) |-> IF m[i] THEN char_to_ascii_uppercase(s[i]) ELSE s[i]] :
      m \in [1..Len(s) -> BOOLEAN] }

OptionTokens(i) == {MENU_OPTIONS[i].key} \cup SeqRange(MENU_OPTIONS[i].aliases)

\* Texts that are neither a key nor an alias of any option.
ForeignTokens ==
  { << >>, <<"u","n","k","n","o","w","n">>,
    <<"7">>,
    <<"s","e">>,
    <<"s","e","a","r","c","h","1">>,
    <<"t"," ","h">>,
    <<"t","r">>,
    <<"x">>,
    <<"1","0">>,
    <<"q","u","i","t","!">> }

\* Every token in every letter case, with the option it belongs to (0: none).
TokenVariants ==
  UNION { { [text |-> v, option |-> i] :
              v \in UNION { CaseVariants(tok) : tok \in OptionTokens(i) } } :
          i \in 1..NumOptions }
    \cup { [text |-> v, option |-> 0] :
             v \in UNION { CaseVariants(tok) : tok \in ForeignTokens } }

NormInit ==
  /\ fnPc = "in"
  /\ \E e \in TokenVariants, p \in Pads, s \in Pads :
       fnIn = [raw |-> p \o e.text \o s, option |-> e.option]
  /\ fnOut = None
  /\ OutIdle
  /\ McpIdle
  /\ TuiIdle
  /\ SubIdle
  /\ SessIdle

\* run (tui.rs:1011) and the Char arm (tui.rs:879) apply normalize_choice.
NormalizeChoice ==
  /\ fnPc = "in"
  /\ fnOut' = normalize_choice(fnIn.raw)
  /\ fnPc' = "out"
  /\ UNCHANGED << fnIn, outVars, mcpVars, tuiVars, subVars >>
  /\ UNCHANGED sessVars

NormNext == NormalizeChoice

NormSpec == NormInit /\ [][NormNext]_vars

\* C5: every key and every alias of an option, in any letter case and with
\* any surrounding whitespace, resolves to that option's key; the empty or
\* whitespace-only text and every text that is no key and no alias resolve
\* to no option.
C5_NormalizeChoiceResolves ==
  fnPc = "out" =>
    fnOut = IF fnIn.option = 0 THEN None
            ELSE Some(MENU_OPTIONS[fnIn.option].key)

\* " SeArCh\t" has been resolved to Search's key "1".
C5_Witness ==
  /\ fnPc = "out"
  /\ fnIn.raw = <<" ","S","e","A","r","C","h","\t">>
  /\ fnOut = Some(<<"1">>)

-----------------------------------------------------------------------------
(* tui.rs: the output scrollback                                           *)

\* The cap of append_output (tui.rs:896).
OUTPUT_CAP == 1200

\* append_output evicting from the wrong end: keeps the oldest OUTPUT_CAP lines.
append_output_keep_oldest(lines, line) ==
  LET trimmed == trim_end(line)
      grown   == Append(lines, trimmed)
  IN  IF trimmed = << >> THEN lines
      ELSE IF Len(grown) > OUTPUT_CAP
        THEN SubSeq(grown, 1, OUTPUT_CAP)
        ELSE grown

\* tui.rs append_output: drop a line that is blank after trim_end, push the
\* trimmed line, and keep only the last OUTPUT_CAP lines.
append_output(lines, line) ==
  LET trimmed == trim_end(line)
      grown   == Append(lines, trimmed)
  IN  IF trimmed = << >> THEN lines
      ELSE IF Len(grown) > OUTPUT_CAP
        THEN SubSeq(grown, Len(grown) - OUTPUT_CAP + 1, Len(grown))
        ELSE grown

\* Most lines one run of the scrollback harness pushes.
MaxPushed == 1203

DigitChars == <<"0","1","2","3","4","5","6","7","8","9">>

\* The decimal numeral of n: the text of the n-th line a child prints.
RECURSIVE Numeral(_)
Numeral(n) ==
  IF n < 10 THEN << DigitChars[n + 1] >>
  ELSE Numeral(n \div 10) \o << DigitChars[(n % 10) + 1] >>

AppendInit ==
  /\ last_output_lines = << >>
  /\ pushed = 0
  /\ FnIdle
  /\ McpIdle
  /\ TuiIdle
  /\ SubIdle
  /\ SessIdle

\* run_subcommand's receive loops (tui.rs:949-950, 976-977): a line arrives
\* and is appended.  The k-th non-blank line of a run is the numeral of k;
\* a line may be blank and may end in whitespace.
AppendOutput ==
  /\ pushed < MaxPushed
  /\ \E blank \in BOOLEAN, tail \in { << >>, << " " >>, << "\t", " " >> } :
       LET line == (IF blank THEN << >> ELSE Numeral(pushed + 1)) \o tail
       IN  /\ last_output_lines' = append_output(last_output_lines, line)
           /\ pushed' = IF blank THEN pushed ELSE pushed + 1
  /\ UNCHANGED << fnVars, mcpVars, tuiVars, subVars >>
  /\ UNCHANGED sessVars

\* run_subcommand clears the history once the child is spawned (tui.rs:917).
ClearOutput ==
  /\ last_output_lines' = << >>
  /\ pushed' = 0
  /\ UNCHANGED << fnVars, mcpVars, tuiVars, subVars >>
  /\ UNCHANGED sessVars

AppendNext == AppendOutput \/ ClearOutput

AppendSpec == AppendInit /\ [][AppendNext]_vars

Min(a, b) == IF a <= b THEN a ELSE b

\* C4: the retained history never holds more than OUTPUT_CAP lines, and it
\* is exactly the most recently pushed lines (trimmed), in arrival order:
\* once more than OUTPUT_CAP lines were pushed, the oldest are the ones gone.
C4_ScrollbackKeepsNewest ==
  LET kept == Min(pushed, OUTPUT_CAP)
  IN  /\ Len(last_output_lines) <= OUTPUT_CAP
      /\ last_output_lines = [i \in 1..kept |-> Numeral(pushed - kept + i)]

\* The cap has been exceeded: 1202 lines were pushed and line 3 is the oldest kept.
C4_Witness ==
  /\ pushed = OUTPUT_CAP + 2
  /\ Len(last_output_lines) = OUTPUT_CAP
  /\ last_output_lines[1] = << "3" >>

-----------------------------------------------------------------------------
(* mcp.rs: the tool catalog and the gates                                  *)

\* The names of get_tools' descriptors, in declaration order, with one entry
\* listed twice (a copy-and-paste slip).
get_tools_duplicated ==
  << "xint_search", "xint_profile", "xint_thread", "xint_tweet", "xint_tweet",
     "xint_xsearch", "xint_collections_list", "xint_analyze", "xint_article",
     "xint_collections_search", "xint_bookmarks", "xint_package_create",
     "xint_package_status", "xint_package_query", "xint_package_refresh",
     "xint_package_search", "xint_package_publish", "xint_cache_clear",
     "xint_watch", "xint_diff", "xint_report", "xint_sentiment", "xint_costs" >>

\* The catalog with a descriptor for a tool that execute_tool has no arm for.
get_tools_with_unhandled ==
  << "xint_search", "xint_profile", "xint_thread", "xint_tweet", "xint_trends",
     "xint_xsearch", "xint_collections_list", "xint_analyze", "xint_article",
     "xint_collections_search", "xint_bookmarks", "xint_package_create",
     "xint_package_status", "xint_package_query", "xint_package_refresh",
     "xint_package_search", "xint_package_publish", "xint_cache_clear",
     "xint_watch", "xint_diff", "xint_report", "xint_sentiment", "xint_costs",
     "xint_export" >>

\* MCPServer::get_tools: the names of the descriptors, in declaration order
\* (mcp.rs lines 92, 106, ..., 378).
get_tools ==
  << "xint_search", "xint_profile", "xint_thread", "xint_tweet", "xint_trends",
     "xint_xsearch", "xint_collections_list", "xint_analyze", "xint_article",
     "xint_collections_search", "xint_bookmarks", "xint_package_create",
     "xint_package_status", "xint_package_query", "xint_package_refresh",
     "xint_package_search", "xint_package_publish", "xint_cache_clear",
     "xint_watch", "xint_diff", "xint_report", "xint_sentiment", "xint_costs" >>

\* Tool names a client may send that no descriptor declares.
UnregisteredNames == { "xint_nope" }

ToolNameSamples == SeqRange(get_tools) \cup UnregisteredNames

\* cli::PolicyMode, by the text policy::as_str gives it.
PolicyModes == { "read_only", "engagement" }

policy_rank(mode) == IF mode = "engagement" THEN 1 ELSE 0

\* policy::is_allowed(mode, required): the configured mode is at least as
\* permissive as the required one.
policy_is_allowed(mode, required) == policy_rank(mode) >= policy_rank(required)

\* tool_required_policy with xint_diff left out of the engagement tools.
tool_required_policy_diff_read_only(name) ==
  IF name \in { "xint_bookmarks", "xint_package_publish" }
    THEN "engagement"
    ELSE "read_only"

\* MCPServer::tool_required_policy
tool_required_policy(name) ==
  IF name \in { "xint_bookmarks", "xint_diff", "xint_package_publish" }
    THEN "engagement"
    ELSE "read_only"

\* tool_budget_guarded, as it would be if it guarded nothing.
tool_budget_guarded_none(name) == FALSE

\* MCPServer::tool_budget_guarded
tool_budget_guarded(name) ==
  name \in { "xint_search", "xint_profile", "xint_thread", "xint_tweet",
             "xint_trends", "xint_xsearch", "xint_collections_list",
             "xint_collections_search", "xint_analyze", "xint_article",
             "xint_bookmarks", "xint_watch", "xint_diff", "xint_report",
             "xint_sentiment", "xint_package_create", "xint_package_query",
             "xint_package_refresh", "xint_package_search",
             "xint_package_publish" }

Ok(v) == [ok |-> TRUE, value |-> v]
Err(e) == [ok |-> FALSE, err |-> e]

\* An error String: plain text (the pieces of a format!), or the text of a
\* serialised JSON object (serde_json::json!({...}).to_string()).
Text(parts) == [kind |-> "text", parts |-> parts]
JsonText(object) == [kind |-> "json", object |-> object]

\* ensure_tool_allowed refusing with a sentence instead of the JSON payload.
ensure_tool_allowed_plain_text(mode, name) ==
  LET required == tool_required_policy(name)
  IN  IF policy_is_allowed(mode, required)
        THEN Ok("unit")
        ELSE Err(Text(<< "MCP tool '", name, "' requires '", required, "' policy mode" >>))

\* MCPServer::ensure_tool_allowed: Ok(()) or the POLICY_DENIED payload.
ensure_tool_allowed(mode, name) ==
  LET required == tool_required_policy(name)
  IN  IF policy_is_allowed(mode, required)
        THEN Ok("unit")
        ELSE Err(JsonText(
               [ code |-> "POLICY_DENIED",
                 message |-> << "MCP tool '", name, "' requires '", required, "' policy mode" >>,
                 tool |-> name,
                 policy_mode |-> mode,
                 required_mode |-> required ]))

\* costs::check_budget: the day's spend against the daily limit (amounts in cents).
check_budget(spent_now, limit) ==
  [ allowed   |-> spent_now < limit,
    spent     |-> spent_now,
    limit     |-> limit,
    remaining |-> IF limit > spent_now THEN limit - spent_now ELSE 0 ]

\* ensure_budget_allowed reporting the difference of limit and spend instead
\* of the cost tracker's remaining amount.
ensure_budget_allowed_unclamped(enforce, name, budget) ==
  IF ~enforce \/ ~tool_budget_guarded(name) THEN Ok("unit")
  ELSE IF budget.allowed THEN Ok("unit")
  ELSE Err(JsonText(
         [ code |-> "BUDGET_DENIED",
           message |-> [ text |-> "Daily budget exceeded",
                         spent |-> budget.spent, limit |-> budget.limit ],
           tool |-> name,
           spent_usd |-> budget.spent,
           limit_usd |-> budget.limit,
           remaining_usd |-> budget.limit - budget.spent ]))

\* ensure_budget_allowed asking the cost tracker also when the guard is off.
ensure_budget_allowed_guard_ignored(enforce, name, budget) ==
  IF ~tool_budget_guarded(name) THEN Ok("unit")
  ELSE IF budget.allowed THEN Ok("unit")
  ELSE Err(JsonText(
         [ code |-> "BUDGET_DENIED",
           message |-> [ text |-> "Daily budget exceeded",
                         spent |-> budget.spent, limit |-> budget.limit ],
           tool |-> name,
           spent_usd |-> budget.spent,
           limit_usd |-> budget.limit,
           remaining_usd |-> budget.remaining ]))

\* MCPServer::ensure_budget_allowed: Ok(()) unless the guard is on, the tool
\* is guarded and the cost tracker says the budget is used up.
ensure_budget_allowed(enforce, name, budget) ==
  IF ~enforce \/ ~tool_budget_guarded(name) THEN Ok("unit")
  ELSE IF budget.allowed THEN Ok("unit")
  ELSE Err(JsonText(
         [ code |-> "BUDGET_DENIED",
           message |-> [ text |-> "Daily budget exceeded",
                         spent |-> budget.spent, limit |-> budget.limit ],
           tool |-> name,
           spent_usd |-> budget.spent,
           limit_usd |-> budget.limit,
           remaining_usd |-> budget.remaining ]))

-----------------------------------------------------------------------------
(* mcp.rs: tool execution.  The arguments object is modelled by the JSON   *)
(* kind of the value under each key that execute_tool reads.               *)

ArgKeys == { "query", "username", "tweet_id", "url", "collection_id", "package_id",
             "package_ids", "reason", "snapshot_version", "topic" }

\* No key present: also stands for a missing "arguments" (mcp.rs:573-576).
ArgsEmpty == [k \in ArgKeys |-> "absent"]

\* Every key present with the type its tool expects.
ArgsComplete ==
  [k \in ArgKeys |->
     IF k = "package_ids" THEN "array"
     ELSE IF k = "snapshot_version" THEN "number"
     ELSE "string"]

\* Every key present with a type its tool does not accept.
ArgsMistyped ==
  [k \in ArgKeys |-> IF k = "snapshot_version" THEN "string" ELSE "number"]

\* Arguments sent to every tool.
ArgSamples == { ArgsEmpty, ArgsComplete, ArgsMistyped }

\* Further arguments sent to xint_package_query: a query with package_ids
\* missing, not an array, or an empty array; package_ids without a query.
PackageQueryArgSamples ==
  { [ArgsComplete EXCEPT !["package_ids"] = "absent"],
    [ArgsComplete EXCEPT !["package_ids"] = "string"],
    [ArgsComplete EXCEPT !["package_ids"] = "array_empty"],
    [ArgsComplete EXCEPT !["query"] = "absent"] }

\* What the Package API does with a request that is sent.
ApiOutcomes == { "send_failed", "body_read_failed", "http_error",
                 "empty_body", "bad_json", "json" }

\* call_package_api handing an empty body to the JSON decoder.
call_package_api_empty_body_rejected(base_url_set, api) ==
  IF ~base_url_set
    THEN [ok |-> FALSE, err |-> Text(<< "XINT_PACKAGE_API_BASE_URL not set" >>), sent |-> FALSE]
  ELSE IF api = "send_failed"
    THEN [ok |-> FALSE, err |-> Text(<< "Package API request failed" >>), sent |-> TRUE]
  ELSE IF api = "body_read_failed"
    THEN [ok |-> FALSE, err |-> Text(<< "Package API body read failed" >>), sent |-> TRUE]
  ELSE IF api = "http_error"
    THEN [ok |-> FALSE, err |-> Text(<< "Package API ", "status", "body" >>), sent |-> TRUE]
  ELSE IF api = "empty_body"
    THEN [ok |-> FALSE, err |-> Text(<< "Package API JSON decode failed" >>), sent |-> TRUE]
  ELSE IF api = "bad_json"
    THEN [ok |-> FALSE, err |-> Text(<< "Package API JSON decode failed" >>), sent |-> TRUE]
  ELSE [ok |-> TRUE, value |-> "json", sent |-> TRUE]

\* MCPServer::call_package_api.  sent tells whether req.send() was reached.
call_package_api(base_url_set, api) ==
  IF ~base_url_set
    THEN [ok |-> FALSE, err |-> Text(<< "XINT_PACKAGE_API_BASE_URL not set" >>), sent |-> FALSE]
  ELSE IF api = "send_failed"
    THEN [ok |-> FALSE, err |-> Text(<< "Package API request failed" >>), sent |-> TRUE]
  ELSE IF api = "body_read_failed"
    THEN [ok |-> FALSE, err |-> Text(<< "Package API body read failed" >>), sent |-> TRUE]
  ELSE IF api = "http_error"
    THEN [ok |-> FALSE, err |-> Text(<< "Package API ", "status", "body" >>), sent |-> TRUE]
  ELSE IF api = "empty_body"
    THEN [ok |-> TRUE, value |-> "{}", sent |-> TRUE]
  ELSE IF api = "bad_json"
    THEN [ok |-> FALSE, err |-> Text(<< "Package API JSON decode failed" >>), sent |-> TRUE]
  ELSE [ok |-> TRUE, value |-> "json", sent |-> TRUE]

Content(parts) == << [type |-> "text", text |-> parts] >>

Done(parts) == [ok |-> TRUE, value |-> Content(parts), sent |-> FALSE]
Missing(key) == [ok |-> FALSE, err |-> Text(<< "Missing ", key >>), sent |-> FALSE]

\* `.await?` on call_package_api, then the pretty-printed body as content.
Forward(base_url_set, api) ==
  LET r == call_package_api(base_url_set, api)
  IN  IF r.ok
        THEN [ok |-> TRUE, value |-> Content(<< "pretty", r.value >>), sent |-> r.sent]
        ELSE [ok |-> FALSE, err |-> r.err, sent |-> r.sent]

IsStr(args, key) == args[key] = "string"
IsU64(args, key) == args[key] = "number"

\* The xint_package_query arm without its package_ids.is_empty() check.
execute_package_query_unchecked(args, base_url_set, api) ==
  IF ~IsStr(args, "query") THEN Missing("query")
  ELSE Forward(base_url_set, api)

\* execute_tool, arm "xint_package_query" (mcp.rs:820-850): package_ids that
\* is missing or no array becomes the empty list (unwrap_or_default), and an
\* empty list is rejected before the request is built.
execute_package_query(args, base_url_set, api) ==
  IF ~IsStr(args, "query") THEN Missing("query")
  ELSE IF args["package_ids"] # "array" THEN Missing("package_ids")
  ELSE Forward(base_url_set, api)

\* The default arm answering an empty success instead of an error.
execute_unknown_as_success(name) == Done(<< >>)

\* execute_tool, default arm (mcp.rs:960)
execute_unknown(name) ==
  [ok |-> FALSE, err |-> Text(<< "Unknown tool: ", name >>), sent |-> FALSE]

\* MCPServer::execute_tool: [ok, value | err, sent], sent telling whether an
\* HTTP request to the Package API was issued.
execute_tool(name, args, base_url_set, api) ==
  CASE name = "xint_search" ->
         IF IsStr(args, "query") THEN Done(<< "Search: ", "query", "limit" >>)
         ELSE Missing("query")
    [] name = "xint_profile" ->
         IF IsStr(args, "username") THEN Done(<< "Profile: @", "username" >>)
         ELSE Missing("username")
    [] name = "xint_thread" ->
         IF IsStr(args, "tweet_id") THEN Done(<< "Thread for tweet: ", "tweet_id" >>)
         ELSE Missing("tweet_id")
    [] name = "xint_tweet" ->
         IF IsStr(args, "tweet_id") THEN Done(<< "Tweet: ", "tweet_id" >>)
         ELSE Missing("tweet_id")
    [] name = "xint_trends" -> Done(<< "Trends for: ", "location" >>)
    [] name = "xint_xsearch" ->
         IF IsStr(args, "query") THEN Done(<< "X-Search: ", "query" >>)
         ELSE Missing("query")
    [] name = "xint_collections_list" -> Done(<< "Collections: []" >>)
    [] name = "xint_analyze" ->
         IF IsStr(args, "query") THEN Done(<< "Analysis: ", "query" >>)
         ELSE Missing("query")
    [] name = "xint_article" ->
         IF IsStr(args, "url") THEN Done(<< "Article: ", "url" >>)
         ELSE Missing("url")
    [] name = "xint_collections_search" ->
         IF ~IsStr(args, "collection_id") THEN Missing("collection_id")
         ELSE IF ~IsStr(args, "query") THEN Missing("query")
         ELSE Done(<< "Collections search in ", "collection_id", "query" >>)
    [] name = "xint_bookmarks" -> Done(<< "Bookmarks: OAuth required" >>)
    [] name = "xint_package_create" -> Forward(base_url_set, api)
    [] name = "xint_package_status" ->
         IF ~IsStr(args, "package_id") THEN Missing("package_id")
         ELSE Forward(base_url_set, api)
    [] name = "xint_package_query" -> execute_package_query(args, base_url_set, api)
    [] name = "xint_package_refresh" ->
         IF ~IsStr(args, "package_id") THEN Missing("package_id")
         ELSE IF ~IsStr(args, "reason") THEN Missing("reason")
         ELSE Forward(base_url_set, api)
    [] name = "xint_package_search" ->
         IF ~IsStr(args, "query") THEN Missing("query")
         ELSE Forward(base_url_set, api)
    [] name = "xint_package_publish" ->
         IF ~IsStr(args, "package_id") THEN Missing("package_id")
         ELSE IF ~IsU64(args, "snapshot_version") THEN Missing("snapshot_version")
         ELSE Forward(base_url_set, api)
    [] name = "xint_cache_clear" -> Done(<< "Cache cleared" >>)
    [] name = "xint_watch" ->
         IF IsStr(args, "query") THEN Done(<< "Watch: ", "query" >>)
         ELSE Missing("query")
    [] name = "xint_diff" ->
         IF IsStr(args, "username") THEN Done(<< "Diff tracking for @", "username" >>)
         ELSE Missing("username")
    [] name = "xint_report" ->
         IF IsStr(args, "topic") THEN Done(<< "Report on: ", "topic" >>)
         ELSE Missing("topic")
    [] name = "xint_sentiment" -> Done(<< "Sentiment analysis (requires XAI_API_KEY)" >>)
    [] name = "xint_costs" -> Done(<< "Cost tracking for period: ", "period" >>)
    [] OTHER -> execute_unknown(name)

-----------------------------------------------------------------------------
(* mcp.rs: handle_message.  An input line is                               *)
(*   [json, method, id, params]: json tells whether it parses as JSON,     *)
(*   method is Some(text) when "method" is a string, id is the "id" member *)
(*   (None when absent or null), params is Some([name, arguments]) when    *)
(*   "params" is present, name being Some(text) when it is a string.       *)

ResultResponse(id, result) == [jsonrpc |-> "2.0", id |-> id, result |-> result]

ErrorResponse(id, code, message) ==
  [jsonrpc |-> "2.0", id |-> id, error |-> [code |-> code, message |-> message]]

\* Result<Option<String>, String> of handle_message
Reply(response) == [tag |-> "some", response |-> response]
NoReply == [tag |-> "none"]
Fault(err) == [tag |-> "err", err |-> err]

\* What handling a line did besides its return value.
NoEffects == [executed |-> FALSE, consulted |-> FALSE, sent |-> FALSE, rel |-> << >>]

\* handle_message, arm "initialize" (mcp.rs:533-550)
handle_initialize(id) ==
  [ ret |-> Reply(ResultResponse(id,
               [ protocolVersion |-> "2024-11-05",
                 capabilities |-> "tools",
                 serverInfo |-> [name |-> "xint", version |-> "1.0.0"] ])),
    initialized |-> TRUE ]

\* The "initialized" arm acknowledging the notification with a response.
handle_initialized_acknowledged(id) == Reply(ResultResponse(id, "ack"))

\* handle_message, arm "initialized" (mcp.rs:551-554)
handle_initialized(id) == NoReply

\* handle_message, arm "tools/list" (mcp.rs:555-565)
handle_tools_list(id) ==
  Reply(ResultResponse(id, [tools |-> get_tools]))

\* The record written with the success flag always set.
reliability_record_always_success(name, success) ==
  << [op |-> << "mcp:", name >>, success |-> TRUE, mode |-> "Mcp"] >>

\* handle_message, "tools/call": reliability::record_command_result with the
\* key format!("mcp:{name}") (mcp.rs:589-596, 607-614); the records made.
reliability_record(name, success) ==
  << [op |-> << "mcp:", name >>, success |-> success, mode |-> "Mcp"] >>

\* The gates asked in the other order: budget first, then policy.
tool_gates_budget_first(mode, enforce, name, budget) ==
  LET pol == ensure_tool_allowed(mode, name)
      bud == ensure_budget_allowed(enforce, name, budget)
  IN  IF ~bud.ok THEN bud ELSE IF ~pol.ok THEN pol ELSE Ok("unit")

\* handle_message, the gates of "tools/call" (mcp.rs:578-583): the policy
\* gate first, the budget gate only when the policy gate passed.
tool_gates(mode, enforce, name, budget) ==
  LET pol == ensure_tool_allowed(mode, name)
      bud == ensure_budget_allowed(enforce, name, budget)
  IN  IF ~pol.ok THEN pol ELSE IF ~bud.ok THEN bud ELSE Ok("unit")

\* The arm running the tool before it asks the gates.
handle_tools_call_execute_first(line, mode, enforce, budget, base_url_set, api) ==
  IF line.params = None
    THEN [ret |-> Fault(Text(<< "Missing params" >>)), effects |-> NoEffects]
  ELSE IF line.params[1].name = None
    THEN [ret |-> Fault(Text(<< "Missing tool name" >>)), effects |-> NoEffects]
  ELSE
    LET name   == line.params[1].name[1]
        args   == line.params[1].arguments
        pol    == ensure_tool_allowed(mode, name)
        gates  == tool_gates(mode, enforce, name, budget)
        run    == execute_tool(name, args, base_url_set, api)
        record(success) == reliability_record(name, success)
    IN  IF ~run.ok
          THEN [ ret |-> Reply(ErrorResponse(line.id, -32603, run.err)),
                 effects |-> [ executed |-> TRUE,
                               consulted |-> FALSE,
                               sent |-> run.sent,
                               rel |-> record(FALSE) ] ]
        ELSE IF ~gates.ok
          THEN [ ret |-> Reply(ErrorResponse(line.id, -32603, gates.err)),
                 effects |-> [ executed |-> FALSE,
                               consulted |-> pol.ok /\ enforce /\ tool_budget_guarded(name),
                               sent |-> FALSE,
                               rel |-> record(FALSE) ] ]
        ELSE IF run.ok
          THEN [ ret |-> Reply(ResultResponse(line.id, [content |-> run.value])),
                 effects |-> [ executed |-> TRUE,
                               consulted |-> enforce /\ tool_budget_guarded(name),
                               sent |-> run.sent,
                               rel |-> record(TRUE) ] ]
        ELSE [ ret |-> Reply(ErrorResponse(line.id, -32603, run.err)),
               effects |-> [ executed |-> TRUE,
                             consulted |-> enforce /\ tool_budget_guarded(name),
                             sent |-> run.sent,
                             rel |-> record(FALSE) ] ]

\* handle_message, arm "tools/call" (mcp.rs:566-626)
handle_tools_call(line, mode, enforce, budget, base_url_set, api) ==
  IF line.params = None
    THEN [ret |-> Fault(Text(<< "Missing params" >>)), effects |-> NoEffects]
  ELSE IF line.params[1].name = None
    THEN [ret |-> Fault(Text(<< "Missing tool name" >>)), effects |-> NoEffects]
  ELSE
    LET name   == line.params[1].name[1]
        args   == line.params[1].arguments
        pol    == ensure_tool_allowed(mode, name)
        gates  == tool_gates(mode, enforce, name, budget)
        run    == execute_tool(name, args, base_url_set, api)
        record(success) == reliability_record(name, success)
    IN  IF ~gates.ok
          THEN [ ret |-> Reply(ErrorResponse(line.id, -32603, gates.err)),
                 effects |-> [ executed |-> FALSE,
                               consulted |-> pol.ok /\ enforce /\ tool_budget_guarded(name),
                               sent |-> FALSE,
                               rel |-> record(FALSE) ] ]
        ELSE IF run.ok
          THEN [ ret |-> Reply(ResultResponse(line.id, [content |-> run.value])),
                 effects |-> [ executed |-> TRUE,
                               consulted |-> enforce /\ tool_budget_guarded(name),
                               sent |-> run.sent,
                               rel |-> record(TRUE) ] ]
        ELSE [ ret |-> Reply(ErrorResponse(line.id, -32603, run.err)),
               effects |-> [ executed |-> TRUE,
                             consulted |-> enforce /\ tool_budget_guarded(name),
                             sent |-> run.sent,
                             rel |-> record(FALSE) ] ]

\* The default arm reporting an internal error instead of "method not found".
handle_unknown_method_as_internal(id, method) ==
  Reply(ErrorResponse(id, -32603, Text(<< "Method not found: ", method >>)))

\* handle_message, default arm (mcp.rs:627-637)
handle_unknown_method(id, method) ==
  Reply(ErrorResponse(id, -32601, Text(<< "Method not found: ", method >>)))

\* handle_message refusing tools/list and tools/call until initialize was handled.
handle_message_requires_initialized(line, is_initialized, mode, enforce, budget, base_url_set, api) ==
  IF ~line.json
    THEN [ ret |-> Fault(Text(<< "Failed to parse JSON" >>)),
           initialized |-> is_initialized, effects |-> NoEffects ]
  ELSE IF line.method = None
    THEN [ ret |-> Fault(Text(<< "Missing method field" >>)),
           initialized |-> is_initialized, effects |-> NoEffects ]
  ELSE
    LET method == line.method[1]
    IN  CASE method = "initialize" ->
               [ ret |-> handle_initialize(line.id).ret,
                 initialized |-> handle_initialize(line.id).initialized,
                 effects |-> NoEffects ]
          [] method = "initialized" ->
               [ ret |-> handle_initialized(line.id),
                 initialized |-> is_initialized, effects |-> NoEffects ]
          [] ~is_initialized /\ method \in {"tools/list", "tools/call"} ->
               [ ret |-> Reply(ErrorResponse(line.id, -32002,
                                             Text(<< "Server not initialized" >>))),
                 initialized |-> is_initialized, effects |-> NoEffects ]
          [] method = "tools/list" ->
               [ ret |-> handle_tools_list(line.id),
                 initialized |-> is_initialized, effects |-> NoEffects ]
          [] method = "tools/call" ->
               LET call == handle_tools_call(line, mode, enforce, budget, base_url_set, api)
               IN  [ ret |-> call.ret,
                     initialized |-> is_initialized, effects |-> call.effects ]
          [] OTHER ->
               [ ret |-> handle_unknown_method(line.id, method),
                 initialized |-> is_initialized, effects |-> NoEffects ]

\* MCPServer::handle_message: [ret, initialized, effects]
handle_message(line, is_initialized, mode, enforce, budget, base_url_set, api) ==
  IF ~line.json
    THEN [ ret |-> Fault(Text(<< "Failed to parse JSON" >>)),
           initialized |-> is_initialized, effects |-> NoEffects ]
  ELSE IF line.method = None
    THEN [ ret |-> Fault(Text(<< "Missing method field" >>)),
           initialized |-> is_initialized, effects |-> NoEffects ]
  ELSE
    LET method == line.method[1]
    IN  CASE method = "initialize" ->
               [ ret |-> handle_initialize(line.id).ret,
                 initialized |-> handle_initialize(line.id).initialized,
                 effects |-> NoEffects ]
          [] method = "initialized" ->
               [ ret |-> handle_initialized(line.id),
                 initialized |-> is_initialized, effects |-> NoEffects ]
          [] method = "tools/list" ->
               [ ret |-> handle_tools_list(line.id),
                 initialized |-> is_initialized, effects |-> NoEffects ]
          [] method = "tools/call" ->
               LET call == handle_tools_call(line, mode, enforce, budget, base_url_set, api)
               IN  [ ret |-> call.ret,
                     initialized |-> is_initialized, effects |-> call.effects ]
          [] OTHER ->
               [ ret |-> handle_unknown_method(line.id, method),
                 initialized |-> is_initialized, effects |-> NoEffects ]

-----------------------------------------------------------------------------
(* mcp.rs: run_stdio, the server loop over the lines of standard input     *)

\* Lines a run of the server reads at most.
MaxLines == 2

\* The daily budget limit the cost tracker is configured with, and the
\* largest spend it reaches (cents).
BudgetLimit == 1
MaxSpent == 2

RequestIds == { None, Some(1) }

MethodSamples == { "initialize", "initialized", "tools/list", "ping", "resources/list" }

Line(method, id, params) ==
  [json |-> TRUE, method |-> method, id |-> id, params |-> params]

GarbageLine == [json |-> FALSE, method |-> None, id |-> None, params |-> None]

ToolCall(id, name, args) ==
  Line(Some("tools/call"), id, Some([name |-> Some(name), arguments |-> args]))

\* The lines a client sends: not JSON, JSON without a string method, each
\* method without params, and tools/call without params, without a tool
\* name, and for each tool name with each sample of arguments.
LineSamples ==
  { GarbageLine }
    \cup { Line(None, id, None) : id \in RequestIds }
    \cup { Line(Some(m), id, None) : m \in MethodSamples \cup {"tools/call"}, id \in RequestIds }
    \cup { Line(Some("tools/call"), id, Some([name |-> None, arguments |-> ArgsEmpty])) :
             id \in RequestIds }
    \cup { ToolCall(id, n, ArgsComplete) : id \in RequestIds, n \in ToolNameSamples }
    \cup { ToolCall(Some(1), n, a) : n \in ToolNameSamples, a \in ArgSamples }
    \cup { ToolCall(Some(1), "xint_package_query", a) : a \in PackageQueryArgSamples }

IsMethod(line, m) == line.json /\ line.method = Some(m)

\* MCPServer::new (mcp.rs:74-87) with the arguments `run` passes (mcp.rs:990-1011),
\* and run_stdio about to read its first line.
Init ==
  /\ initialized = FALSE
  /\ policy_mode \in PolicyModes
  /\ enforce_budget \in BOOLEAN
  /\ spent \in 0..MaxSpent
  /\ api_base_url_set \in BOOLEAN
  /\ pc = "read"
  /\ cur = None
  /\ last = None
  /\ nRead = 0
  /\ nOut = 0
  /\ expOut = 0
  /\ FnIdle
  /\ OutIdle
  /\ TuiIdle
  /\ SubIdle
  /\ SessIdle

\* run_stdio: reader.next_line() yields a line (mcp.rs:968).
ReadLine ==
  /\ pc = "read"
  /\ nRead < MaxLines
  /\ \E line \in LineSamples :
       /\ cur' = Some(line)
       /\ expOut' = IF IsMethod(line, "initialized") THEN expOut ELSE expOut + 1
  /\ pc' = "handle"
  /\ last' = None
  /\ nRead' = nRead + 1
  /\ UNCHANGED << initialized, policy_mode, enforce_budget, spent, api_base_url_set, nOut >>
  /\ UNCHANGED << fnVars, outVars, tuiVars, subVars >>
  /\ UNCHANGED sessVars

\* run_stdio: next_line yields Ok(None) or an error: the loop ends (mcp.rs:968, 982).
ReadEnd ==
  /\ pc = "read"
  /\ pc' = "done"
  /\ UNCHANGED << initialized, policy_mode, enforce_budget, spent, api_base_url_set,
                  cur, last, nRead, nOut, expOut >>
  /\ UNCHANGED << fnVars, outVars, tuiVars, subVars >>
  /\ UNCHANGED sessVars

\* run_stdio writing nothing when handle_message returns an error.
written_lines_errors_dropped(ret) ==
  CASE ret.tag = "some" -> << ret.response >>
    [] ret.tag = "none" -> << >>
    [] ret.tag = "err"  -> << >>

\* run_stdio's match on handle_message's result (mcp.rs:969-979): the lines
\* written to stdout.
written_lines(ret) ==
  CASE ret.tag = "some" -> << ret.response >>
    [] ret.tag = "none" -> << >>
    [] ret.tag = "err"  ->
         << [jsonrpc |-> "2.0", error |-> [code |-> -32603, message |-> ret.err]] >>

\* run_stdio: the line read is handled and its response printed (mcp.rs:969-979).
HandleLine ==
  /\ pc = "handle"
  /\ \E api \in ApiOutcomes :
       LET line   == cur[1]
           budget == check_budget(spent, BudgetLimit)
           h      == handle_message(line, initialized, policy_mode, enforce_budget,
                                    budget, api_base_url_set, api)
           out    == written_lines(h.ret)
       IN  /\ initialized' = h.initialized
           /\ nOut' = nOut + Len(out)
           /\ last' = Some([ line |-> line, written |-> out, effects |-> h.effects,
                             budget |-> budget,
                             api |-> IF h.effects.sent THEN Some(api) ELSE None ])
  /\ cur' = None
  /\ pc' = "read"
  /\ UNCHANGED << policy_mode, enforce_budget, spent, api_base_url_set, nRead, expOut >>
  /\ UNCHANGED << fnVars, outVars, tuiVars, subVars >>
  /\ UNCHANGED sessVars

\* The cost tracker records spend of this or another xint process.
RecordSpend ==
  /\ pc \in { "read", "handle" }
  /\ spent < MaxSpent
  /\ spent' = spent + 1
  /\ UNCHANGED << initialized, policy_mode, enforce_budget, api_base_url_set,
                  pc, cur, last, nRead, nOut, expOut >>
  /\ UNCHANGED << fnVars, outVars, tuiVars, subVars >>
  /\ UNCHANGED sessVars

Next == ReadLine \/ ReadEnd \/ HandleLine \/ RecordSpend

Spec == Init /\ [][Next]_vars

-----------------------------------------------------------------------------
(* Properties of the MCP server                                            *)

L == last[1]

\* The last line handled was a tools/call that names a tool.
LastIsCall ==
  /\ last # None
  /\ IsMethod(L.line, "tools/call")
  /\ L.line.params # None
  /\ L.line.params[1].name # None

CallName == L.line.params[1].name[1]
CallArgs == L.line.params[1].arguments

\* Exactly one line was written for the last line handled, a JSON-RPC error
\* object answering its id.
AnsweredError ==
  /\ Len(L.written) = 1
  /\ DOMAIN L.written[1] = { "jsonrpc", "id", "error" }
  /\ L.written[1].id = L.line.id

\* ... whose message is the denial payload with this code.
Denied(code) ==
  /\ AnsweredError
  /\ L.written[1].error.message.kind = "json"
  /\ L.written[1].error.message.object.code = code
  /\ L.written[1].error.message.object.tool = CallName

\* C2: a tools/call whose tool requires a stricter policy mode than the
\* configured one is denied with POLICY_DENIED, whatever the budget state.
C2_PolicyDenialWins ==
  ( /\ LastIsCall
    /\ ~policy_is_allowed(policy_mode, tool_required_policy(CallName)) )
  => Denied("POLICY_DENIED")

\* A policy denial of a budget-guarded tool, made with the guard on and the
\* budget used up.
C2_Witness ==
  /\ LastIsCall
  /\ ~policy_is_allowed(policy_mode, tool_required_policy(CallName))
  /\ enforce_budget
  /\ tool_budget_guarded(CallName)
  /\ ~L.budget.allowed
  /\ Denied("POLICY_DENIED")

UnguardedTools == { "xint_package_status", "xint_cache_clear", "xint_costs" }

\* C3 as stated: for every tool of the catalog, a call the policy gate
\* allows, made while the budget is not allowed, is denied with BUDGET_DENIED
\* and not executed.
C3_EveryToolBudgetDenied ==
  ( /\ LastIsCall
    /\ CallName \in SeqRange(get_tools)
    /\ policy_is_allowed(policy_mode, tool_required_policy(CallName))
    /\ ~L.budget.allowed )
  => ( Denied("BUDGET_DENIED") /\ ~L.effects.executed )

\* C3 (amended): with the budget guard enabled, for every tool of the catalog
\* other than xint_package_status, xint_cache_clear and xint_costs, a call
\* the policy gate allows, made while the budget is not allowed, is denied
\* with BUDGET_DENIED and the tool is not executed.
C3_GuardedToolBudgetDenied ==
  ( /\ LastIsCall
    /\ enforce_budget
    /\ CallName \in SeqRange(get_tools) \ UnguardedTools
    /\ policy_is_allowed(policy_mode, tool_required_policy(CallName))
    /\ ~L.budget.allowed )
  => ( Denied("BUDGET_DENIED") /\ ~L.effects.executed /\ ~L.effects.sent )

\* xint_package_query, complete arguments, over budget: denied, nothing sent.
C3_Witness ==
  /\ LastIsCall
  /\ enforce_budget
  /\ CallName = "xint_package_query"
  /\ CallArgs = ArgsComplete
  /\ api_base_url_set
  /\ ~L.budget.allowed
  /\ Denied("BUDGET_DENIED")
  /\ ~L.effects.executed

IsNamedCall(line) ==
  /\ IsMethod(line, "tools/call")
  /\ line.params # None
  /\ line.params[1].name # None

\* A step of run_stdio that finishes handling the line it holds.
HandlesLine == pc = "handle" /\ pc' # "handle"

ServerFieldsUnchanged ==
  /\ initialized' = initialized
  /\ policy_mode' = policy_mode
  /\ enforce_budget' = enforce_budget

\* C6: a tools/call naming an unregistered tool is answered with a JSON-RPC
\* error response; the server's fields are unchanged and the loop is back at
\* reading the next line.
C6_UnknownToolAnswered ==
  [][ ( /\ HandlesLine
        /\ IsNamedCall(cur[1])
        /\ cur[1].params[1].name[1] \notin SeqRange(get_tools) )
      => ( /\ pc' = "read"
           /\ Len(last'[1].written) = 1
           /\ DOMAIN last'[1].written[1] = { "jsonrpc", "id", "error" }
           /\ last'[1].written[1].id = cur[1].id
           /\ ServerFieldsUnchanged ) ]_vars

\* An unregistered tool was answered "Unknown tool" and the server can read on.
C6_Witness ==
  /\ LastIsCall
  /\ CallName \in UnregisteredNames
  /\ AnsweredError
  /\ L.written[1].error.message = Text(<< "Unknown tool: ", CallName >>)
  /\ pc = "read"
  /\ nRead < MaxLines

\* C7: a call of xint_package_query whose package_ids is empty, missing or
\* not an array is answered with an error, and handling it issues no HTTP
\* request.
C7_EmptyPackageIdsRejected ==
  ( /\ LastIsCall
    /\ CallName = "xint_package_query"
    /\ CallArgs["package_ids"] # "array" )
  => ( AnsweredError /\ ~L.effects.sent )

\* The call reached execute_tool with a query and an empty package_ids, with
\* the Package API configured, and was rejected as "Missing package_ids".
C7_Witness ==
  /\ LastIsCall
  /\ CallName = "xint_package_query"
  /\ CallArgs["query"] = "string"
  /\ CallArgs["package_ids"] = "array_empty"
  /\ api_base_url_set
  /\ L.effects.executed
  /\ AnsweredError
  /\ L.written[1].error.message = Text(<< "Missing ", "package_ids" >>)
  /\ ~L.effects.sent

\* C8: the tools/list response lists the catalog, no tool name twice, the
\* same in every state the server can be in.
C8_ToolsListedOnce ==
  ( last # None /\ IsMethod(L.line, "tools/list") )
  => /\ Len(L.written) = 1
     /\ DOMAIN L.written[1] = { "jsonrpc", "id", "result" }
     /\ LET tools == L.written[1].result.tools
        IN  /\ tools = get_tools
            /\ \A i, j \in 1..Len(tools) : tools[i] = tools[j] => i = j

\* tools/list answered as the second request of a server that was never initialized.
C8_Witness ==
  /\ last # None
  /\ IsMethod(L.line, "tools/list")
  /\ nRead = 2
  /\ ~initialized
  /\ Len(L.written[1].result.tools) = Len(get_tools)

SupportedMethods == { "initialize", "initialized", "tools/list", "tools/call" }

\* C9: a request whose method is none of the supported ones is answered with
\* a JSON-RPC error of code -32601, and the server's fields are unchanged.
C9_UnknownMethodAnswered ==
  [][ ( /\ HandlesLine
        /\ cur[1].json
        /\ cur[1].method # None
        /\ cur[1].method[1] \notin SupportedMethods )
      => ( /\ Len(last'[1].written) = 1
           /\ DOMAIN last'[1].written[1] = { "jsonrpc", "id", "error" }
           /\ last'[1].written[1].id = cur[1].id
           /\ last'[1].written[1].error.code = -32601
           /\ last'[1].effects = NoEffects
           /\ ServerFieldsUnchanged ) ]_vars

\* "ping" was answered -32601 by a server that had been initialized before.
C9_Witness ==
  /\ last # None
  /\ IsMethod(L.line, "ping")
  /\ initialized
  /\ AnsweredError
  /\ L.written[1].error.code = -32601

\* C10: an `initialized` message is answered with no line, every other line
\* with exactly one, written before the next line is read: whenever the loop
\* is at reading, the lines written are as many as the lines read that were
\* no `initialized` message.
C10_OneResponsePerLine ==
  /\ pc \in { "read", "done" } => nOut = expOut
  /\ pc = "handle" =>
       nOut + (IF IsMethod(cur[1], "initialized") THEN 0 ELSE 1) = expOut
  /\ last # None =>
       Len(L.written) = IF IsMethod(L.line, "initialized") THEN 0 ELSE 1

\* An `initialized` message was handled second, after a line that was answered.
C10_Witness ==
  /\ last # None
  /\ IsMethod(L.line, "initialized")
  /\ L.written = << >>
  /\ nRead = 2
  /\ nOut = 1
  /\ pc = "read"

\* The last line handled was a tools/call, with or without a tool name.
LastIsToolsCall == last # None /\ IsMethod(L.line, "tools/call")

\* One record was made for the last line handled, keyed by the tool, whose
\* success flag says whether the line written carries a result.
RecordedOnce(name) ==
  /\ Len(L.effects.rel) = 1
  /\ L.effects.rel[1].op = << "mcp:", name >>
  /\ Len(L.written) = 1
  /\ L.effects.rel[1].success <=> "result" \in DOMAIN L.written[1]
  /\ ~L.effects.rel[1].success <=> "error" \in DOMAIN L.written[1]

\* C11 as stated: every tools/call the server handles makes exactly one
\* reliability record keyed mcp:<tool name>, successful exactly when the
\* response carries a result.
C11_EveryCallRecorded ==
  LastIsToolsCall =>
    /\ Len(L.effects.rel) = 1
    /\ LastIsCall
    /\ RecordedOnce(CallName)

\* C11 amended: every tools/call that carries params with a string tool name
\* makes exactly one reliability record keyed mcp:<tool name>, successful
\* exactly when the response carries a result and failed when it carries an
\* error.
C11_NamedCallRecorded ==
  LastIsCall => RecordedOnce(CallName)

\* A call that reached the Package API and failed there: one failed record.
C11_Witness ==
  /\ LastIsCall
  /\ CallName = "xint_package_query"
  /\ L.effects.sent
  /\ L.effects.rel = reliability_record("xint_package_query", FALSE)
  /\ "error" \in DOMAIN L.written[1]

-----------------------------------------------------------------------------
(* tui.rs: the palette scorer                                              *)

starts_with(s, prefix) ==
  \E text \in {s}, head \in {prefix} :
    Len(head) <= Len(text) /\ SubSeq(text, 1, Len(head)) = head

contains(s, part) ==
  \E text \in {s}, needle \in {part} :
    \E i \in 0..(Len(text) - Len(needle)) :
      SubSeq(text, i + 1, i + Len(needle)) = needle

\* score_option without the key criterion.
score_option_without_key(option, query) ==
  LET q == CHOOSE lowered \in {to_ascii_lowercase(query)} : TRUE
      aliases == SeqRange(option.aliases)
  IN  IF q = << >> THEN 0
      ELSE (IF to_ascii_lowercase(option.label) = q THEN 90 ELSE 0)
         + (IF \E a \in aliases : to_ascii_lowercase(a) = q THEN 80 ELSE 0)
         + (IF starts_with(to_ascii_lowercase(option.label), q) THEN 70 ELSE 0)
         + (IF \E a \in aliases : starts_with(to_ascii_lowercase(a), q) THEN 60 ELSE 0)
         + (IF contains(to_ascii_lowercase(option.label), q) THEN 40 ELSE 0)
         + (IF contains(to_ascii_lowercase(option.hint), q) THEN 20 ELSE 0)

\* score_option with the weights of the label prefix and of the hint
\* substring exchanged.
score_option_hint_before_prefix(option, query) ==
  LET q == CHOOSE lowered \in {to_ascii_lowercase(query)} : TRUE
      aliases == SeqRange(option.aliases)
  IN  IF q = << >> THEN 0
      ELSE (IF option.key = q THEN 100 ELSE 0)
         + (IF to_ascii_lowercase(option.label) = q THEN 90 ELSE 0)
         + (IF \E a \in aliases : to_ascii_lowercase(a) = q THEN 80 ELSE 0)
         + (IF starts_with(to_ascii_lowercase(option.label), q) THEN 20 ELSE 0)
         + (IF \E a \in aliases : starts_with(to_ascii_lowercase(a), q) THEN 60 ELSE 0)
         + (IF contains(to_ascii_lowercase(option.label), q) THEN 40 ELSE 0)
         + (IF contains(to_ascii_lowercase(option.hint), q) THEN 70 ELSE 0)

\* tui.rs score_option
score_option(option, query) ==
  LET q == CHOOSE lowered \in {to_ascii_lowercase(query)} : TRUE
      aliases == SeqRange(option.aliases)
  IN  IF q = << >> THEN 0
      ELSE (IF option.key = q THEN 100 ELSE 0)
         + (IF to_ascii_lowercase(option.label) = q THEN 90 ELSE 0)
         + (IF \E a \in aliases : to_ascii_lowercase(a) = q THEN 80 ELSE 0)
         + (IF starts_with(to_ascii_lowercase(option.label), q) THEN 70 ELSE 0)
         + (IF \E a \in aliases : starts_with(to_ascii_lowercase(a), q) THEN 60 ELSE 0)
         + (IF contains(to_ascii_lowercase(option.label), q) THEN 40 ELSE 0)
         + (IF contains(to_ascii_lowercase(option.hint), q) THEN 20 ELSE 0)

\* tui.rs match_palette, the loop over the options taken with their scores:
\* a later option replaces the best one only with a strictly higher score.
RECURSIVE palette_scan_last_wins(_, _, _, _)
palette_scan_last_wins(scores, index, best_index, best_score) ==
  IF index = NumOptions
  THEN IF best_score > 0 THEN best_index ELSE None
  ELSE IF scores[index] >= best_score
       THEN palette_scan_last_wins(scores, index + 1, Some(index), scores[index])
       ELSE palette_scan_last_wins(scores, index + 1, best_index, best_score)

RECURSIVE palette_scan(_, _, _, _)
palette_scan(scores, index, best_index, best_score) ==
  IF index = NumOptions
  THEN IF best_score > 0 THEN best_index ELSE None
  ELSE IF scores[index] > best_score
       THEN palette_scan(scores, index + 1, Some(index), scores[index])
       ELSE palette_scan(scores, index + 1, best_index, best_score)

palette_scores(text) ==
  [index \in 0..(NumOptions - 1) |-> score_option(MENU_OPTIONS[index + 1], text)]

match_palette_untrimmed(query) ==
  palette_scan(palette_scores(query), 0, None, 0)

\* tui.rs match_palette: the 0-based index of the option found, if any.
match_palette(query) ==
  LET trimmed == CHOOSE text \in {trim(query)} : TRUE
  IN  IF trimmed = << >> THEN None
      ELSE palette_scan(palette_scores(trimmed), 0, None, 0)

-----------------------------------------------------------------------------
(* tui.rs: rendering.  The only state a render changes is the output       *)
(* scroll offset, which output_view_lines clamps.                          *)

\* Terminal sizes: a wide one (double pane) and a narrow one (single pane).
TermSizes == { [cols |-> 120, rows |-> 12], [cols |-> 80, rows |-> 10] }

Max(a, b) == IF a >= b THEN a ELSE b

\* The viewport render_dashboard passes to build_tab_lines (tui.rs:492, 499, 621, 652).
viewport_of(size) ==
  IF size.cols < 110
    THEN 2 * Max(10, Max(size.rows - 6, 0))
    ELSE Max(12, Max(size.rows - 7, 0))

\* output_view_lines without the clamp of the offset.
render_offset_unclamped(the_tab, offset, lines, search, size) == offset

\* output_view_lines (tui.rs:410-426): the offset after the clamp.  Only the
\* Output tab builds the output view (tui.rs:481, 646-653).
render_offset(the_tab, offset, lines, search, size) ==
  LET query == CHOOSE text \in {to_ascii_lowercase(trim(search))} : TRUE
      filtered ==
        IF query = << >> THEN Len(lines)
        ELSE Cardinality({ i \in 1..Len(lines) :
                             contains(to_ascii_lowercase(lines[i]), query) })
      visible == Max(1, viewport_of(size))
      max_offset == Max(filtered - visible, 0)
  IN  IF the_tab = "Output" THEN Min(offset, max_offset) ELSE offset

\* DashboardTab::next
tab_next(the_tab) ==
  CASE the_tab = "Commands" -> "Output"
    [] the_tab = "Output" -> "Help"
    [] the_tab = "Help" -> "Commands"

-----------------------------------------------------------------------------
(* tui.rs: select_option_interactive.  tuiPc is the position of the        *)
(* dashboard: "loop" at the top of run's loop, "select" inside the event   *)
(* loop of select_option_interactive (blocked in event::read), "chosen"    *)
(* when it has returned Ok to run, "exited" when run has returned.         *)

\* Drop for RawModeGuard: terminal::disable_raw_mode(), its result discarded.
\* The terminal is taken to honour the call.
raw_mode_guard_forgotten(raw) == raw

raw_mode_guard_drop(raw) == FALSE

SelOk(value) == [ok |-> TRUE, value |-> value]

SelErr(what) == [ok |-> FALSE, err |-> what]

\* run's result: Ok(()) or the error that `?` propagated.
RunOk == [ok |-> TRUE]

RunErr(what) == [ok |-> FALSE, err |-> what]

\* What is typed at a prompt_line prompt (before its trim).
ChoiceInputs ==
  { MENU_OPTIONS[i].key : i \in 1..NumOptions }
    \cup { <<" ","S","e","a","r","c","h">>, <<"Q","u","i","t","\n">>, <<"b","o","g","u","s">>, << >> }

FilterInputs == { <<" ">>, <<" ","S","T","D","E","R","R"," ">>, <<"1">> }

PaletteInputs == { <<" ">>, <<" ","T","r","e","n","d"," ">>, <<"z","z","z">>, <<"E","x","i","t">>, <<"u","r","l">> }

\* Characters that reach the KeyCode::Char(ch) arm (the earlier arms take
\* q, ?, 1, 2, 3, f, F and /).
CharKeys == { "Q", "s", "t", "p", "a", "h", "0", "4", "5", "6", "x", " " }

\* A return of select_option_interactive from `raw`: the guard, if it was
\* created, is dropped; run propagates an error with `?`.
ReturnFrom(ret, raw, guarded) ==
  /\ selRet' = ret
  /\ raw_mode' = IF guarded THEN raw_mode_guard_drop(raw) ELSE raw
  /\ tuiPc' = IF ret.ok THEN "chosen" ELSE "exited"
  /\ run_result' = IF ret.ok THEN run_result ELSE Some(RunErr(ret.err))

\* render_dashboard(ui_state, session)? on the state the handler has built:
\* the output view clamps the offset, then the write succeeds or fails.
Render(the_tab, offset, search) ==
  \E size \in TermSizes :
    /\ output_offset' = render_offset(the_tab, offset, last_output_lines, search, size)
    /\ \/ /\ tuiPc' = "select"
          /\ raw_mode' = TRUE
          /\ selRet' = << >>
          /\ UNCHANGED run_result
       \/ ReturnFrom(SelErr("render_dashboard"), TRUE, TRUE)

\* execute!(stdout, Clear, MoveTo)?; return Ok(selected)
ClearAndReturn(selected) ==
  \/ ReturnFrom(SelOk(selected), TRUE, TRUE)
  \/ ReturnFrom(SelErr("execute"), TRUE, TRUE)

selected_key(index) ==
  IF index < NumOptions THEN MENU_OPTIONS[index + 1].key ELSE <<"0">>

\* tui.rs:770-784: the call, up to the first event::read.
SelectEnter ==
  /\ tuiPc = "loop"
  /\ IF ~is_tty
       THEN /\ \/ /\ ~stdin_eof
                  /\ \E input \in ChoiceInputs :
                       ReturnFrom(SelOk(trim(input)), raw_mode, FALSE)
                  /\ UNCHANGED stdin_eof
               \/ /\ ReturnFrom(SelOk(<< >>), raw_mode, FALSE)
                  /\ stdin_eof' = TRUE
               \/ /\ ReturnFrom(SelErr("prompt_line"), raw_mode, FALSE)
                  /\ UNCHANGED stdin_eof
            /\ UNCHANGED output_offset
       ELSE /\ \/ /\ ReturnFrom(SelErr("enable_raw_mode"), raw_mode, FALSE)
                  /\ UNCHANGED output_offset
               \/ Render(tab, output_offset, output_search)
            /\ UNCHANGED stdin_eof
  /\ UNCHANGED << fnVars, outVars, mcpVars, subVars, is_tty, active_index, tab,
                  output_search, last_status >>
  /\ UNCHANGED rememberedVars
  /\ UNCHANGED << typed_last, sub_args >>

Selecting == tuiPc = "select"

\* KeyCode::Up stopping at the first option instead of wrapping around.
index_up_saturating(index) == IF index = 0 THEN 0 ELSE index - 1

\* KeyCode::Up (tui.rs:789-796): the new active_index.
index_up(index) == IF index = 0 THEN NumOptions - 1 ELSE index - 1

\* KeyCode::Down (tui.rs:797-800): the new active_index.
index_down(index) == (index + 1) % NumOptions

KeyUp ==
  /\ Selecting
  /\ active_index' = index_up(active_index)
  /\ Render(tab, output_offset, output_search)
  /\ UNCHANGED << fnVars, outVars, mcpVars, subVars, is_tty, tab, output_search, last_status >>
  /\ UNCHANGED sessVars

KeyDown ==
  /\ Selecting
  /\ active_index' = index_down(active_index)
  /\ Render(tab, output_offset, output_search)
  /\ UNCHANGED << fnVars, outVars, mcpVars, subVars, is_tty, tab, output_search, last_status >>
  /\ UNCHANGED sessVars

KeyTab ==
  /\ Selecting
  /\ tab' = tab_next(tab)
  /\ Render(tab', output_offset, output_search)
  /\ UNCHANGED << fnVars, outVars, mcpVars, subVars, is_tty, active_index, output_search,
                  last_status >>
  /\ UNCHANGED sessVars

\* saturating_add(10): the offset is far below usize::MAX, every render
\* having clamped it to the length of the scrollback.
KeyPageUp ==
  /\ Selecting
  /\ tab = "Output"
  /\ Render(tab, output_offset + 10, output_search)
  /\ UNCHANGED << fnVars, outVars, mcpVars, subVars, is_tty, active_index, tab,
                  output_search, last_status >>
  /\ UNCHANGED sessVars

KeyPageDown ==
  /\ Selecting
  /\ tab = "Output"
  /\ Render(tab, Max(output_offset - 10, 0), output_search)
  /\ UNCHANGED << fnVars, outVars, mcpVars, subVars, is_tty, active_index, tab,
                  output_search, last_status >>
  /\ UNCHANGED sessVars

KeyEnter ==
  /\ Selecting
  /\ ClearAndReturn(selected_key(active_index))
  /\ UNCHANGED << fnVars, outVars, mcpVars, subVars, is_tty, active_index, tab,
                  output_offset, output_search, last_status >>
  /\ UNCHANGED sessVars

\* KeyCode::Char('q') | KeyCode::Esc
KeyQuit ==
  /\ Selecting
  /\ ClearAndReturn(<<"0">>)
  /\ UNCHANGED << fnVars, outVars, mcpVars, subVars, is_tty, active_index, tab,
                  output_offset, output_search, last_status >>
  /\ UNCHANGED sessVars

\* '?' and '3' show Help, '1' Commands, '2' Output.
KeyTabShortcutOn(ch) ==
  /\ Selecting
  /\ tab' = CASE ch = "1" -> "Commands"
               [] ch = "2" -> "Output"
               [] OTHER -> "Help"
  /\ Render(tab', output_offset, output_search)
  /\ UNCHANGED << fnVars, outVars, mcpVars, subVars, is_tty, active_index, output_search,
                  last_status >>
  /\ UNCHANGED sessVars

TabShortcutChars == { "?", "1", "2", "3" }

KeyTabShortcut == \E ch \in TabShortcutChars : KeyTabShortcutOn(ch)

\* KeyCode::Char('f') | KeyCode::Char('F')
KeyFilter ==
  /\ Selecting
  /\ \/ /\ \E what \in {"disable_raw_mode", "prompt_line", "enable_raw_mode"} :
             ReturnFrom(SelErr(what), what = "disable_raw_mode", TRUE)
        /\ UNCHANGED << tab, output_offset, output_search, last_status >>
     \/ \E input \in FilterInputs : \E query \in {trim(input)} :
          /\ output_search' = trim(query)
          /\ tab' = "Output"
          /\ last_status' = IF output_search' = << >>
                              THEN Some(<<"output filter cleared">>)
                              ELSE Some(<<"output filter active: ", output_search'>>)
          /\ Render("Output", 0, output_search')
  /\ UNCHANGED << fnVars, outVars, mcpVars, subVars, is_tty, active_index >>
  /\ UNCHANGED sessVars

\* KeyCode::Char('/')
KeyPalette ==
  /\ Selecting
  /\ \/ /\ \E what \in {"disable_raw_mode", "prompt_line", "enable_raw_mode"} :
             ReturnFrom(SelErr(what), what = "disable_raw_mode", TRUE)
        /\ UNCHANGED << active_index, output_offset, last_status >>
     \/ \E input \in PaletteInputs : \E query \in {trim(input)} :
        \E found \in {match_palette(query)} :
              IF found # None
                THEN /\ active_index' = found[1]
                     /\ ClearAndReturn(selected_key(found[1]))
                     /\ UNCHANGED << output_offset, last_status >>
                ELSE /\ last_status' =
                          Some(<<"no palette match: ",
                                 IF trim(query) = << >> THEN <<"(","e","m","p","t","y",")">> ELSE trim(query)>>)
                     /\ Render(tab, output_offset, output_search)
                     /\ UNCHANGED active_index
  /\ UNCHANGED << fnVars, outVars, mcpVars, subVars, is_tty, tab, output_search >>
  /\ UNCHANGED sessVars

\* KeyCode::Char(ch): a shortcut returns its key; any other character is
\* dropped without a render.
KeyCharOn(ch) ==
  /\ Selecting
  /\ LET value == normalize_choice(<<ch>>) IN
     IF value # None
       THEN ClearAndReturn(value[1])
       ELSE UNCHANGED << raw_mode, tuiPc, selRet, run_result >>
  /\ UNCHANGED << fnVars, outVars, mcpVars, subVars, is_tty, active_index, tab,
                  output_offset, output_search, last_status >>
  /\ UNCHANGED sessVars

KeyChar == \E ch \in CharKeys : KeyCharOn(ch)

\* event::read()? fails.
EventReadError ==
  /\ Selecting
  /\ ReturnFrom(SelErr("event::read"), TRUE, TRUE)
  /\ UNCHANGED << fnVars, outVars, mcpVars, subVars, is_tty, active_index, tab,
                  output_offset, output_search, last_status >>
  /\ UNCHANGED sessVars

-----------------------------------------------------------------------------
(* tui.rs: run and run_subcommand.  One action per pass of run's loop      *)
(* after select_option_interactive has returned Ok.                        *)

\* The lines a child prints: the odd ones on stdout, the even ones on
\* stderr (tagged by the reader thread), some with trailing blanks.
MaxChildLines == 24

child_line(i) ==
  IF i % 2 = 0 THEN <<"[","s","t","d","e","r","r","]"," ">> \o Numeral(i) \o <<" ">> ELSE Numeral(i)

ChildLineCounts == { 0, 1, MaxChildLines }

\* run_subcommand's `while let Ok(line) = rx.try_recv() { append_output(..) }`
RECURSIVE append_lines(_, _, _)
append_lines(lines, from, to) ==
  IF from > to THEN lines
  ELSE append_lines(append_output(lines, child_line(from)), from + 1, to)

\* The exit status try_wait yields once the child has ended: an exit code,
\* or none when a signal killed the child.
ExitCodes == { 0, 1 }

ChildStatuses == { [code |-> Some(c)] : c \in ExitCodes } \cup { [code |-> None] }

\* The status shown for every exit.
final_status_always_success(status) == Some(<<"success">>)

\* run_subcommand: session.last_status from the exit status (tui.rs:980-990).
final_status(status) ==
  IF status.code = Some(0)
    THEN Some(<<"success">>)
    ELSE Some(<<"failed (exit {})",
                IF status.code = None THEN <<"s","i","g","n","a","l">> ELSE Numeral(status.code[1])>>)

SpinnerFrames == << "|", "/", "-", "\\" >>

running_status(index) == Some(<<"running {}", <<SpinnerFrames[(index % 4) + 1]>> >>)

IsRunningStatus(status) == status # None /\ status[1][1] = "running {}"

Chosen == tuiPc = "chosen" /\ selRet # << >> /\ selRet.ok

\* tui.rs:1011-1014
RunInvalid ==
  /\ Chosen
  /\ normalize_choice(selRet.value) = None
  /\ last_status' = Some(<<"invalid selection">>)
  /\ tuiPc' = "loop"
  /\ UNCHANGED run_result
  /\ UNCHANGED << fnVars, outVars, mcpVars, subVars, is_tty, raw_mode, selRet,
                  active_index, tab, output_offset, output_search >>
  /\ UNCHANGED sessVars

\* tui.rs:1017-1020
RunExit ==
  /\ Chosen
  /\ normalize_choice(selRet.value) = Some(<<"0">>)
  /\ tuiPc' = "exited"
  /\ run_result' = Some(RunOk)
  /\ UNCHANGED << fnVars, outVars, mcpVars, subVars, is_tty, raw_mode, selRet,
                  active_index, tab, output_offset, output_search, last_status >>
  /\ UNCHANGED sessVars

\* tui.rs prompt_with_default: what it returns when prompt_line yields the
\* text typed.
prompt_with_default(previous, typed) ==
  LET input == trim(typed)
  IN  IF trim(input) = << >>
        THEN IF previous = None THEN << >> ELSE previous[1]
        ELSE input

\* The leading '@' characters left in place.
trim_start_matches_at_kept(s) == s

\* str::trim_start_matches('@')
RECURSIVE trim_start_matches_at(_)
trim_start_matches_at(s) ==
  IF s # << >> /\ Head(s) = "@" THEN trim_start_matches_at(Tail(s)) ELSE s

\* What is typed at a prompt_with_default prompt, and at the one for the
\* username.
PromptInputs == { << >>, <<" ","x"," ">> }

UsernameInputs == PromptInputs \cup { <<"@">>, <<"@","x">> }

\* How many lines the child of a command prints.
SubLineCounts == { 0, 2 }

\* run_subcommand(..)? as one step of run: the spawn fails; or the child
\* runs, its lines are appended to a cleared scrollback (with a render after
\* each on a terminal, which may fail) and its exit status becomes the
\* status.
RunSubcommand ==
  \/ /\ tuiPc' = "exited"
     /\ \E what \in {"current_exe", "spawn"} :
          /\ sub_result' = Some(RunErr(what))
          /\ run_result' = Some(RunErr(what))
     /\ UNCHANGED << last_output_lines, output_offset, last_status, exit_status >>
  \/ \E n \in SubLineCounts :
       /\ last_output_lines' = append_lines(<< >>, 1, n)
       /\ output_offset' = 0
       /\ \/ /\ tuiPc' = "exited"
             /\ \/ /\ sub_result' = Some(RunErr("try_wait"))
                   /\ run_result' = Some(RunErr("try_wait"))
                   /\ last_status' \in
                        IF is_tty THEN { last_status, running_status(0) }
                                  ELSE { last_status }
                \/ /\ is_tty
                   /\ sub_result' = Some(RunErr("render_dashboard"))
                   /\ run_result' = Some(RunErr("render_dashboard"))
                   /\ last_status' \in { last_status, running_status(0) }
             /\ UNCHANGED exit_status
          \/ /\ tuiPc' = "loop"
             /\ \E status \in ChildStatuses :
                  /\ exit_status' = Some(status)
                  /\ last_status' = final_status(status)
             /\ sub_result' = Some(RunOk)
             /\ UNCHANGED run_result

\* Whether standard input is at end of file after read_line has yielded
\* this text: an empty text is an empty line or the end of the input.
EofAfter(typed) == IF typed = << >> THEN BOOLEAN ELSE { FALSE }

\* An arm of run's match leaves through `?` at its prompt.
PromptFails ==
  /\ tuiPc' = "exited"
  /\ run_result' = Some(RunErr("prompt_with_default"))
  /\ sub_result' = None
  /\ typed_last' = None
  /\ sub_args' = None
  /\ UNCHANGED stdin_eof
  /\ UNCHANGED << last_output_lines, output_offset, last_status, exit_status, rememberedVars >>

\* An arm of run's match finds the value empty: the status, and `continue`.
ValueRequired(message) ==
  /\ last_status' = Some(<<message>>)
  /\ tuiPc' = "loop"
  /\ sub_result' = None
  /\ sub_args' = None
  /\ UNCHANGED << last_output_lines, output_offset, run_result, exit_status, rememberedVars >>

ChosenKey(key) == Chosen /\ normalize_choice(selRet.value) = Some(key)

RunFrame ==
  UNCHANGED << fnVars, pushed, mcpVars, is_tty, raw_mode, selRet, active_index, tab,
               output_search, child_prog, child_pos, child_exited, pipe, held, reader,
               channel, spinner_index, left_at_exit >>

\* run, arm "1" (tui.rs:1021-1035)
RunSearch ==
  /\ ChosenKey(<<"1">>)
  /\ \/ PromptFails
     \/ \E typed \in PromptInputs :
          /\ typed_last' = Some(typed)
          /\ stdin_eof' \in EofAfter(typed)
          /\ LET query == prompt_with_default(last_search, typed) IN
             IF query = << >>
               THEN ValueRequired("query is required")
               ELSE /\ last_search' = Some(query)
                    /\ last_command' = Some(<<"xint search {}", query>>)
                    /\ sub_args' = Some(<< <<"search">>, query >>)
                    /\ UNCHANGED << last_location, last_username, last_tweet_ref,
                                    last_article_url >>
                    /\ RunSubcommand
  /\ RunFrame

\* run, arm "2" (tui.rs:1036-1062)
RunTrends ==
  /\ ChosenKey(<<"2">>)
  /\ \/ PromptFails
     \/ \E typed \in PromptInputs :
          /\ typed_last' = Some(typed)
          /\ stdin_eof' \in EofAfter(typed)
          /\ LET location == prompt_with_default(last_location, typed) IN
             /\ last_location' = Some(location)
             /\ last_command' = IF location = << >>
                                  THEN Some(<<"xint trends">>)
                                  ELSE Some(<<"xint trends {}", location>>)
             /\ sub_args' = IF location = << >>
                              THEN Some(<< <<"trends">> >>)
                              ELSE Some(<< <<"trends">>, location >>)
             /\ UNCHANGED << last_search, last_username, last_tweet_ref, last_article_url >>
             /\ RunSubcommand
  /\ RunFrame

\* run, arm "3" (tui.rs:1063-1079)
RunProfile ==
  /\ ChosenKey(<<"3">>)
  /\ \/ PromptFails
     \/ \E typed \in UsernameInputs :
          /\ typed_last' = Some(typed)
          /\ stdin_eof' \in EofAfter(typed)
          /\ LET username == trim_start_matches_at(prompt_with_default(last_username, typed)) IN
             IF username = << >>
               THEN ValueRequired("username is required")
               ELSE /\ last_username' = Some(username)
                    /\ last_command' = Some(<<"xint profile {}", username>>)
                    /\ sub_args' = Some(<< <<"profile">>, username >>)
                    /\ UNCHANGED << last_search, last_location, last_tweet_ref,
                                    last_article_url >>
                    /\ RunSubcommand
  /\ RunFrame

\* run, arm "4" (tui.rs:1080-1095)
RunThread ==
  /\ ChosenKey(<<"4">>)
  /\ \/ PromptFails
     \/ \E typed \in PromptInputs :
          /\ typed_last' = Some(typed)
          /\ stdin_eof' \in EofAfter(typed)
          /\ LET tweet_ref == prompt_with_default(last_tweet_ref, typed) IN
             IF tweet_ref = << >>
               THEN ValueRequired("tweet id/url is required")
               ELSE /\ last_tweet_ref' = Some(tweet_ref)
                    /\ last_command' = Some(<<"xint thread {}", tweet_ref>>)
                    /\ sub_args' = Some(<< <<"thread">>, tweet_ref >>)
                    /\ UNCHANGED << last_search, last_location, last_username,
                                    last_article_url >>
                    /\ RunSubcommand
  /\ RunFrame

\* run, arm "5" (tui.rs:1096-1113)
RunArticle ==
  /\ ChosenKey(<<"5">>)
  /\ \/ PromptFails
     \/ \E typed \in PromptInputs :
          /\ typed_last' = Some(typed)
          /\ stdin_eof' \in EofAfter(typed)
          /\ LET url == prompt_with_default(last_article_url, typed) IN
             IF url = << >>
               THEN ValueRequired("article url is required")
               ELSE /\ last_article_url' = Some(url)
                    /\ last_command' = Some(<<"xint article {}", url>>)
                    /\ sub_args' = Some(<< <<"article">>, url >>)
                    /\ UNCHANGED << last_search, last_location, last_username,
                                    last_tweet_ref >>
                    /\ RunSubcommand
  /\ RunFrame

\* run, arm "6" (tui.rs:1114-1122)
RunHelp ==
  /\ ChosenKey(<<"6">>)
  /\ last_command' = Some(<<"xint --help">>)
  /\ sub_args' = Some(<< <<"--help">> >>)
  /\ typed_last' = None
  /\ UNCHANGED stdin_eof
  /\ UNCHANGED << last_search, last_location, last_username, last_tweet_ref,
                  last_article_url >>
  /\ RunSubcommand
  /\ RunFrame

\* run is about to call select_option_interactive: for the first time, or
\* after Help has run and left its output and status.
TuiInit ==
  /\ FnIdle
  /\ McpIdle
  /\ SubIdle
  /\ pushed = 0
  /\ is_tty \in BOOLEAN
  /\ raw_mode = FALSE
  /\ tuiPc = "loop"
  /\ selRet = << >>
  /\ active_index = (CHOOSE i \in 1..NumOptions : MENU_OPTIONS[i].key = <<"1">>) - 1
  /\ tab = "Output"
  /\ output_offset = 0
  /\ output_search = << >>
  /\ run_result = None
  /\ last_search = None /\ last_location = None /\ last_username = None
  /\ last_tweet_ref = None /\ last_article_url = None /\ typed_last = None
  /\ sub_args = None /\ stdin_eof = FALSE
  /\ \/ /\ last_output_lines = << >>
        /\ last_status = None
        /\ last_command = None
     \/ /\ \E n \in ChildLineCounts : last_output_lines = append_lines(<< >>, 1, n)
        /\ \E status \in ChildStatuses : last_status = final_status(status)
        /\ last_command = Some(<<"xint --help">>)

\* run starts (tui.rs:996-1008) with stdin or stdout not a terminal.
SessionInit ==
  /\ FnIdle
  /\ McpIdle
  /\ SubIdle
  /\ OutIdle
  /\ SessIdle
  /\ is_tty = FALSE
  /\ raw_mode = FALSE
  /\ tuiPc = "loop"
  /\ selRet = << >>
  /\ active_index = (CHOOSE i \in 1..NumOptions : MENU_OPTIONS[i].key = <<"1">>) - 1
  /\ tab = "Output"
  /\ output_offset = 0
  /\ output_search = << >>
  /\ last_status = None
  /\ run_result = None

TuiNext ==
  \/ SelectEnter
  \/ KeyUp
  \/ KeyDown
  \/ KeyTab
  \/ KeyPageUp
  \/ KeyPageDown
  \/ KeyEnter
  \/ KeyQuit
  \/ KeyTabShortcut
  \/ KeyFilter
  \/ KeyPalette
  \/ KeyChar
  \/ EventReadError
  \/ RunInvalid
  \/ RunExit
  \/ RunHelp

TuiSpec == TuiInit /\ [][TuiNext]_vars

\* The session without a terminal: the menu is printed and a line is read
\* for each choice.
SessionNext ==
  \/ SelectEnter
  \/ RunInvalid
  \/ RunExit
  \/ RunSearch
  \/ RunTrends
  \/ RunProfile
  \/ RunThread
  \/ RunArticle
  \/ RunHelp

SessionSpec == SessionInit /\ [][SessionNext]_vars

\* The session with run's thread taking its next step whenever it has one.
SessionFairSpec == SessionInit /\ [][SessionNext]_vars /\ WF_vars(SessionNext)

(* C1: whenever select_option_interactive has returned, by a selection or  *)
(* by an error, the terminal's raw mode is disabled: it is enabled only    *)
(* while the event loop of the function is running.                        *)
C1_RawModeDisabledOnReturn ==
  tuiPc # "select" => ~raw_mode

\* An error return out of the event loop: raw mode had been enabled,
\* event::read failed, run has propagated the error, and the terminal is
\* back in cooked mode.
C1_Witness ==
  /\ tuiPc = "exited"
  /\ selRet = SelErr("event::read")
  /\ ~raw_mode

-----------------------------------------------------------------------------
(* tui.rs: run_subcommand, thread step by thread step.  TuiSpec takes a    *)
(* whole run of the child in one step (RunSubcommand); RunSpec follows the    *)
(* child, the two reader threads and the main loop of one call.  While     *)
(* run_subcommand is running tuiPc is "sub_recv" (at rx.try_recv() in the  *)
(* loop), "sub_wait" (at child.try_wait()) or "sub_join" (at the joins).   *)

Streams == { "out", "err" }

SubPcs == { "sub_recv", "sub_wait", "sub_join" }

InSub == tuiPc \in SubPcs

\* A child makes at most this many writes of one line.
MaxWrites == 3

\* The i-th write of a child is the line i on either stream (on stdout
\* with a trailing blank), except that the second line, on stdout, is a
\* line of white space.
child_write(s, i) ==
  CASE s = "err" -> [stream |-> "err", text |-> Numeral(i)]
    [] s = "out" /\ i = 2 -> [stream |-> "out", text |-> <<" ", "\t">>]
    [] OTHER -> [stream |-> "out", text |-> Numeral(i) \o <<" ">>]

\* The programs of MaxWrites writes; a child that exits early makes fewer.
ChildPrograms ==
  { [i \in 1..MaxWrites |-> child_write(on[i], i)] : on \in [1..MaxWrites -> Streams] }

\* What a reader thread sends for a line it read (tui.rs:928, 938).
sent_line(s, text) == IF s = "err" THEN <<"[","s","t","d","e","r","r","]"," ">> \o text ELSE text

\* A channel that hands out the newest line first.
channel_send_front(ch, line) == << line >> \o ch

\* mpsc::Sender::send (tui.rs:928, 938)
channel_send(ch, line) == Append(ch, line)

\* The lines left in the channel dropped after the joins.
final_drain_skipped(lines, ch) == lines

\* run_subcommand's last `while let Ok(line) = rx.try_recv()` (tui.rs:976-978)
RECURSIVE final_drain(_, _)
final_drain(lines, ch) ==
  IF ch = << >> THEN lines
  ELSE final_drain(append_output(lines, Head(ch)), Tail(ch))

\* The state in which run calls run_subcommand: Help, the command that asks
\* for nothing, was chosen, after no run or after an earlier one.
RunInit ==
  /\ FnIdle
  /\ McpIdle
  /\ SubIdle
  /\ pushed = 0
  /\ is_tty \in BOOLEAN
  /\ raw_mode = FALSE
  /\ tuiPc = "chosen"
  /\ selRet = SelOk(MENU_OPTIONS[6].key)
  /\ active_index = 0
  /\ tab = "Output"
  /\ output_search = << >>
  /\ \/ last_output_lines = << >> /\ last_status = None /\ output_offset = 0
     \/ /\ last_output_lines = << <<"o","l","d">> >>
        /\ last_status = final_status([code |-> Some(1)])
        /\ output_offset = 0
     \/ /\ last_output_lines = append_lines(<< >>, 1, MaxChildLines)
        /\ last_status = final_status([code |-> Some(0)])
        /\ output_offset = MaxChildLines - 20
  /\ run_result = None
  /\ last_search = None /\ last_location = None /\ last_username = None
  /\ last_tweet_ref = None /\ last_article_url = None /\ typed_last = None
  /\ sub_args = None /\ stdin_eof = FALSE
  /\ last_command = Some(<<"xint --help">>)

\* run_subcommand returns Err and run propagates it with `?`.
SubFails(what) ==
  /\ tuiPc' = "exited"
  /\ sub_result' = Some(RunErr(what))
  /\ run_result' = Some(RunErr(what))

\* run_subcommand clearing the history and the offset before it spawns.
SubSpawnClearsFirst ==
  /\ Chosen
  /\ normalize_choice(selRet.value) \in { Some(MENU_OPTIONS[i].key) : i \in 1..6 }
  /\ \/ /\ \E what \in {"current_exe", "spawn"} : SubFails(what)
        /\ last_output_lines' = << >>
        /\ output_offset' = 0
        /\ UNCHANGED << child_prog, child_pos,
                        child_exited, exit_status, pipe, held, reader, channel, spinner_index,
                        left_at_exit >>
     \/ /\ \E prog \in ChildPrograms : child_prog' = prog
        /\ child_pos' = 0
        /\ child_exited' = FALSE
        /\ exit_status' = None
        /\ pipe' = [s \in Streams |-> << >>]
        /\ held' = [s \in Streams |-> None]
        /\ reader' = [s \in Streams |-> "reading"]
        /\ channel' = << >>
        /\ spinner_index' = 0
        /\ left_at_exit' = 0
        /\ last_output_lines' = << >>
        /\ output_offset' = 0
        /\ tuiPc' = "sub_recv"
        /\ UNCHANGED << sub_result, run_result >>
  /\ UNCHANGED << fnVars, pushed, mcpVars, is_tty, raw_mode, selRet, active_index,
                  tab, output_search, last_status >>
  /\ UNCHANGED sessVars

\* tui.rs:908-921, 943-946: current_exe, spawn, the history cleared, the
\* reader threads started.
SubSpawn ==
  /\ Chosen
  /\ normalize_choice(selRet.value) \in { Some(MENU_OPTIONS[i].key) : i \in 1..6 }
  /\ \/ /\ \E what \in {"current_exe", "spawn"} : SubFails(what)
        /\ UNCHANGED << last_output_lines, output_offset, child_prog, child_pos,
                        child_exited, exit_status, pipe, held, reader, channel, spinner_index,
                        left_at_exit >>
     \/ /\ \E prog \in ChildPrograms : child_prog' = prog
        /\ child_pos' = 0
        /\ child_exited' = FALSE
        /\ exit_status' = None
        /\ pipe' = [s \in Streams |-> << >>]
        /\ held' = [s \in Streams |-> None]
        /\ reader' = [s \in Streams |-> "reading"]
        /\ channel' = << >>
        /\ spinner_index' = 0
        /\ left_at_exit' = 0
        /\ last_output_lines' = << >>
        /\ output_offset' = 0
        /\ tuiPc' = "sub_recv"
        /\ UNCHANGED << sub_result, run_result >>
  /\ UNCHANGED << fnVars, pushed, mcpVars, is_tty, raw_mode, selRet, active_index,
                  tab, output_search, last_status >>
  /\ UNCHANGED sessVars

\* The child writes its next line to one of its pipes.
ChildWrite ==
  /\ InSub
  /\ ~child_exited
  /\ child_pos < Len(child_prog)
  /\ LET w == child_prog[child_pos + 1]
     IN  pipe' = [pipe EXCEPT ![w.stream] = Append(@, w.text)]
  /\ child_pos' = child_pos + 1
  /\ UNCHANGED << fnVars, outVars, mcpVars, tuiVars, child_prog, child_exited, exit_status, held,
                  reader, channel, spinner_index, sub_result, left_at_exit >>
  /\ UNCHANGED sessVars

\* The child exits or is killed, whatever it has written so far.
ChildExit ==
  /\ InSub
  /\ ~child_exited
  /\ child_exited' = TRUE
  /\ UNCHANGED << fnVars, outVars, mcpVars, tuiVars, child_prog, child_pos, exit_status, pipe, held,
                  reader, channel, spinner_index, sub_result, left_at_exit >>
  /\ UNCHANGED sessVars

\* A reader thread: reader.lines() yields the next line of its pipe.
ReaderRead ==
  /\ InSub
  /\ \E s \in Streams :
       /\ reader[s] = "reading"
       /\ held[s] = None
       /\ pipe[s] # << >>
       /\ held' = [held EXCEPT ![s] = Some(Head(pipe[s]))]
       /\ pipe' = [pipe EXCEPT ![s] = Tail(@)]
  /\ UNCHANGED << fnVars, outVars, mcpVars, tuiVars, child_prog, child_pos,
                  child_exited, exit_status, reader, channel, spinner_index, sub_result,
                  left_at_exit >>
  /\ UNCHANGED sessVars

\* A reader thread: tx.send(line), with the tag of its stream.
ReaderSend ==
  /\ InSub
  /\ \E s \in Streams :
       /\ held[s] # None
       /\ channel' = channel_send(channel, sent_line(s, held[s][1]))
       /\ held' = [held EXCEPT ![s] = None]
  /\ UNCHANGED << fnVars, outVars, mcpVars, tuiVars, child_prog, child_pos,
                  child_exited, exit_status, pipe, reader, spinner_index, sub_result, left_at_exit >>
  /\ UNCHANGED sessVars

\* A reader thread: its pipe is at end of file (the child has exited and
\* every line was read); the thread leaves its loop and drops its sender.
ReaderEof ==
  /\ InSub
  /\ \E s \in Streams :
       /\ reader[s] = "reading"
       /\ held[s] = None
       /\ pipe[s] = << >>
       /\ child_exited
       /\ reader' = [reader EXCEPT ![s] = "done"]
  /\ UNCHANGED << fnVars, outVars, mcpVars, tuiVars, child_prog, child_pos,
                  child_exited, exit_status, pipe, held, channel, spinner_index, sub_result,
                  left_at_exit >>
  /\ UNCHANGED sessVars

\* render_dashboard(ui_state, session)? inside run_subcommand, on a terminal
\* only (tui.rs:951-953, 960-966): the offset is clamped against the lines
\* `lines`, then the write succeeds and the loop goes on at `next`, or fails.
SubRender(lines, next) ==
  IF is_tty
    THEN \E size \in TermSizes :
           /\ output_offset' = render_offset(tab, output_offset, lines, output_search, size)
           /\ \/ /\ tuiPc' = next
                 /\ UNCHANGED << sub_result, run_result >>
              \/ SubFails("render_dashboard")
    ELSE /\ tuiPc' = next
         /\ UNCHANGED << output_offset, sub_result, run_result >>

\* Main loop: rx.try_recv() yields a line; it is appended and shown.
SubRecv ==
  /\ tuiPc = "sub_recv"
  /\ channel # << >>
  /\ last_output_lines' = append_output(last_output_lines, Head(channel))
  /\ channel' = Tail(channel)
  /\ SubRender(last_output_lines', "sub_recv")
  /\ UNCHANGED << fnVars, pushed, mcpVars, is_tty, raw_mode, selRet, active_index,
                  tab, output_search, last_status, child_prog, child_pos,
                  child_exited, exit_status, pipe, held, reader, spinner_index, left_at_exit >>
  /\ UNCHANGED sessVars

\* Main loop: rx.try_recv() finds the channel empty (or disconnected).
SubRecvEmpty ==
  /\ tuiPc = "sub_recv"
  /\ channel = << >>
  /\ tuiPc' = "sub_wait"
  /\ UNCHANGED << fnVars, outVars, mcpVars, subVars, is_tty, raw_mode, selRet,
                  active_index, tab, output_offset, output_search, last_status,
                  run_result >>
  /\ UNCHANGED sessVars

\* Lines the child wrote that are not in the history yet.
lines_in_flight ==
  Len(channel) + Len(pipe["out"]) + Len(pipe["err"]) + Len(held["out"]) + Len(held["err"])

\* The polling loop noting the exit status without leaving the loop.
SubTryWaitKeepsPolling ==
  /\ tuiPc = "sub_wait"
  /\ \/ /\ SubFails("try_wait")
        /\ UNCHANGED << output_offset, last_status, spinner_index, exit_status,
                        left_at_exit >>
     \/ /\ child_exited
        /\ \E status \in ChildStatuses : exit_status' = Some(status)
        /\ tuiPc' = "sub_recv"
        /\ left_at_exit' = lines_in_flight
        /\ UNCHANGED << output_offset, last_status, spinner_index, sub_result, run_result >>
     \/ /\ ~child_exited
        /\ last_status' = IF is_tty THEN running_status(spinner_index) ELSE last_status
        /\ SubRender(last_output_lines, "sub_recv")
        /\ spinner_index' = (spinner_index + 1) % Len(SpinnerFrames)
        /\ UNCHANGED << exit_status, left_at_exit >>
  /\ UNCHANGED << fnVars, outVars, mcpVars, is_tty, raw_mode, selRet, active_index,
                  tab, output_search, child_prog, child_pos, child_exited, pipe,
                  held, reader, channel >>
  /\ UNCHANGED sessVars

\* Main loop: child.try_wait()? fails, or yields the exit status (break),
\* or yields None: the spinner status is shown on a terminal, then the
\* loop sleeps and starts over (tui.rs:956-969).
SubTryWait ==
  /\ tuiPc = "sub_wait"
  /\ \/ /\ SubFails("try_wait")
        /\ UNCHANGED << output_offset, last_status, spinner_index, exit_status,
                        left_at_exit >>
     \/ /\ child_exited
        /\ \E status \in ChildStatuses : exit_status' = Some(status)
        /\ tuiPc' = "sub_join"
        /\ left_at_exit' = lines_in_flight
        /\ UNCHANGED << output_offset, last_status, spinner_index, sub_result, run_result >>
     \/ /\ ~child_exited
        /\ last_status' = IF is_tty THEN running_status(spinner_index) ELSE last_status
        /\ SubRender(last_output_lines, "sub_recv")
        /\ spinner_index' = (spinner_index + 1) % Len(SpinnerFrames)
        /\ UNCHANGED << exit_status, left_at_exit >>
  /\ UNCHANGED << fnVars, outVars, mcpVars, is_tty, raw_mode, selRet, active_index,
                  tab, output_search, child_prog, child_pos, child_exited, pipe,
                  held, reader, channel >>
  /\ UNCHANGED sessVars

\* Main loop after the break: both threads are joined, the channel is
\* drained, the exit status becomes the status, run_subcommand returns Ok
\* and run starts its loop over (tui.rs:972-992).
SubJoin ==
  /\ tuiPc = "sub_join"
  /\ \A s \in Streams : reader[s] = "done"
  /\ last_output_lines' = final_drain(last_output_lines, channel)
  /\ channel' = << >>
  /\ last_status' = final_status(exit_status[1])
  /\ sub_result' = Some(RunOk)
  /\ tuiPc' = "loop"
  /\ UNCHANGED << fnVars, pushed, mcpVars, is_tty, raw_mode, selRet, active_index,
                  tab, output_offset, output_search, run_result, child_prog,
                  child_pos, child_exited, exit_status, pipe, held, reader, spinner_index,
                  left_at_exit >>
  /\ UNCHANGED sessVars

RunNext ==
  \/ SubSpawn
  \/ ChildWrite
  \/ ChildExit
  \/ ReaderRead
  \/ ReaderSend
  \/ ReaderEof
  \/ SubRecv
  \/ SubRecvEmpty
  \/ SubTryWait
  \/ SubJoin

RunSpec == RunInit /\ [][RunNext]_vars

\* The steps of run_subcommand's own thread, which sleeps 90 ms at most
\* between two of them, and the steps of the two reader threads.
MainLoopStep == SubRecv \/ SubRecvEmpty \/ SubTryWait \/ SubJoin

ReaderStep == ReaderRead \/ ReaderSend \/ ReaderEof

\* run_subcommand with the scheduler letting every thread that can take a
\* step take one eventually, in the first run of a session (what an earlier
\* run left plays no part in the loop).  Nothing is assumed of the child.
RunFairInit == RunInit /\ last_output_lines = << >>

RunFairSpec ==
  RunFairInit /\ [][RunNext]_vars /\ WF_vars(MainLoopStep) /\ WF_vars(ReaderStep)

\* run_subcommand has returned Ok(()).
SubReturnedOk == sub_result = Some(RunOk)

(* C12: when the child ends with a non-zero exit code or by a signal,      *)
(* run_subcommand returns without error, the status is "failed (exit       *)
(* <code>)" or "failed (exit signal)" and run goes on to the next menu     *)
(* selection; on a zero exit the status is "success"; once run_subcommand  *)
(* has returned to the menu loop the status is no "running" spinner text.  *)
C12_ExitStatusShown ==
  /\ SubReturnedOk =>
       /\ tuiPc = "loop"
       /\ run_result = None
       /\ exit_status # None
       /\ last_status =
            CASE exit_status[1].code = None -> Some(<<"failed (exit {})", <<"s","i","g","n","a","l">>>>)
              [] exit_status[1].code = Some(0) -> Some(<<"success">>)
              [] exit_status[1].code = Some(1) -> Some(<<"failed (exit {})", <<"1">> >>)
              [] OTHER -> Some(<<"failed (exit {})", Numeral(exit_status[1].code[1])>>)
  /\ tuiPc = "loop" => ~IsRunningStatus(last_status)

\* A child killed by a signal while the spinner was running on a terminal.
C12_Witness ==
  /\ SubReturnedOk
  /\ is_tty
  /\ spinner_index > 0
  /\ exit_status = Some([code |-> None])
  /\ last_status = Some(<<"failed (exit {})", <<"s","i","g","n","a","l">>>>)
  /\ tuiPc = "loop"

(* C13: when the child cannot be spawned, or polling its exit status       *)
(* fails, run does not return an error and the menu loop continues.        *)
C13_SpawnAndPollErrorsKeepSession ==
  sub_result \in { Some(RunErr("spawn")), Some(RunErr("try_wait")) } =>
    /\ run_result = None
    /\ tuiPc = "loop"

\* The lines of a stream the child has written, as the history shows them:
\* tagged, trimmed at the end, the blank ones left out.
OnStream(s, writes) ==
  LET idx == { i \in 1..Len(writes) : writes[i].stream = s /\ trim_end(writes[i].text) # << >> }
      nth(k) == CHOOSE i \in idx : Cardinality({ j \in idx : j < i }) = k - 1
  IN  [k \in 1..Cardinality(idx) |->
         IF s = "err" THEN <<"[","s","t","d","e","r","r","]"," ">> \o writes[nth(k)].text
                      ELSE trim_end(writes[nth(k)].text)]

ShownWritten(s) == OnStream(s, SubSeq(child_prog, 1, child_pos))

\* The lines of the history that come from a stream.
HistoryOf(s) ==
  LET from == { OnStream(s, child_prog)[k] : k \in 1..Len(OnStream(s, child_prog)) }
      idx  == { i \in 1..Len(last_output_lines) : last_output_lines[i] \in from }
      nth(k) == CHOOSE i \in idx : Cardinality({ j \in idx : j < i }) = k - 1
  IN  [k \in 1..Cardinality(idx) |-> last_output_lines[nth(k)]]

IsPrefix(a, b) == Len(a) <= Len(b) /\ SubSeq(b, 1, Len(a)) = a

\* A call of run_subcommand has spawned its child.
Spawned == InSub \/ sub_result \in { Some(RunOk), Some(RunErr("render_dashboard")),
                                     Some(RunErr("try_wait")) }

(* C14: under every interleaving of the two reader threads, the stdout     *)
(* lines are in the history in the order the child wrote them, and so are  *)
(* the stderr lines (tagged "[stderr] "); the history holds nothing else.  *)
C14_StreamOrderKept ==
  Spawned =>
    /\ \A s \in Streams : IsPrefix(HistoryOf(s), ShownWritten(s))
    /\ Len(last_output_lines) = Len(HistoryOf("out")) + Len(HistoryOf("err"))

\* The child wrote 1 on stdout, 2 on stderr, 3 on stdout; the history has
\* the stderr line first and the stdout lines in their order.
C14_Witness ==
  /\ SubReturnedOk
  /\ child_pos = 3
  /\ last_output_lines = << <<"[","s","t","d","e","r","r","]"," ">> \o <<"2">>, <<"1">>, <<"3">> >>

-----------------------------------------------------------------------------
(* Harness for match_palette.  A query scores above zero only when its     *)
(* trimmed, lower-cased text occurs in a key, label, alias or hint, so the *)
(* inputs are every piece of every such text, as written, upper-cased and  *)
(* lower-cased, with whitespace around it, and texts occurring nowhere.    *)

PaletteTexts(i) ==
  {MENU_OPTIONS[i].key, MENU_OPTIONS[i].label, MENU_OPTIONS[i].hint}
    \cup SeqRange(MENU_OPTIONS[i].aliases)

to_ascii_uppercase(s) == [i \in 1..Len(s) |-> char_to_ascii_uppercase(s[i])]

QueryForms == {"written", "upper", "lower"}

InForm(form, s) ==
  CASE form = "written" -> s
    [] form = "upper" -> to_ascii_uppercase(s)
    [] form = "lower" -> to_ascii_lowercase(s)

\* Queries no key, label, alias or hint overlaps.
ForeignQueries ==
  { << >>,
    <<"z","z","z">>,
    <<"7">>,
    <<"t","r","e","n","d","z">>,
    <<"1","1">>,
    <<"x"," ","y">> }

PaletteInit ==
  /\ fnPc = "in"
  /\ \/ \E i \in 1..NumOptions : \E text \in PaletteTexts(i) :
          \E a \in 1..Len(text) : \E b \in a..Len(text) :
            \E form \in QueryForms, p \in Pads :
              fnIn = [query |-> p \o InForm(form, SubSeq(text, a, b)) \o p]
     \/ \E text \in ForeignQueries, p \in Pads, s \in Pads :
          fnIn = [query |-> p \o text \o s]
  /\ fnOut = None
  /\ OutIdle
  /\ McpIdle
  /\ TuiIdle
  /\ SubIdle
  /\ SessIdle

MatchPalette ==
  /\ fnPc = "in"
  /\ fnOut' = [found |-> match_palette(fnIn.query)]
  /\ fnPc' = "out"
  /\ UNCHANGED << fnIn, outVars, mcpVars, tuiVars, subVars >>
  /\ UNCHANGED sessVars

PaletteNext == MatchPalette

PaletteSpec == PaletteInit /\ [][PaletteNext]_vars

\* The text score_option compares with the fields of an option.
Asked == to_ascii_lowercase(trim(fnIn.query))

\* The ranking criteria, 1 (exact key) to 7 (hint substring).
Criteria == 1..7

Meets(option, q, criterion) ==
  CASE criterion = 1 -> option.key = q
    [] criterion = 2 -> to_ascii_lowercase(option.label) = q
    [] criterion = 3 -> \E a \in SeqRange(option.aliases) : to_ascii_lowercase(a) = q
    [] criterion = 4 -> starts_with(to_ascii_lowercase(option.label), q)
    [] criterion = 5 ->
         \E a \in SeqRange(option.aliases) : starts_with(to_ascii_lowercase(a), q)
    [] criterion = 6 -> contains(to_ascii_lowercase(option.label), q)
    [] criterion = 7 -> contains(to_ascii_lowercase(option.hint), q)

\* The criteria each option meets for the query asked, by 0-based index.
Met ==
  [index \in 0..(NumOptions - 1) |->
     IF Asked = << >> THEN {}
     ELSE { c \in Criteria : Meets(MENU_OPTIONS[index + 1], Asked, c) }]

\* The score of each option for the query asked.
Scored == palette_scores(trim(fnIn.query))

\* C16: for a query equal to the key of an option, that option scores
\* strictly higher than every option the query matches only as a substring
\* of its hint, and it is the option match_palette returns.
C16_KeyQueryFindsItsOption ==
  fnPc = "out" =>
    \E met \in {Met}, scored \in {Scored} :
      \A index \in 0..(NumOptions - 1) :
        MENU_OPTIONS[index + 1].key = trim(fnIn.query) =>
          /\ fnOut.found = Some(index)
          /\ \A other \in 0..(NumOptions - 1) :
               met[other] = {7} => scored[other] < scored[index]

\* The query "3", the key of Profile, found Profile.
C16_Witness ==
  /\ fnPc = "out"
  /\ fnIn.query = <<"3">>
  /\ fnOut.found = Some(2)

\* C17: match_palette returns, of the options sharing the highest non-zero
\* score, the one declared first.
C17_FirstOfTheBestWins ==
  fnPc = "out" =>
    \E scored \in {Scored} :
      \A index \in 0..(NumOptions - 1) :
        ( /\ trim(fnIn.query) # << >>
          /\ scored[index] > 0
          /\ \A other \in 0..(NumOptions - 1) : scored[other] <= scored[index]
          /\ \A earlier \in 0..(index - 1) : scored[earlier] < scored[index] )
        => fnOut.found = Some(index)

\* The query "url" scores the same for Thread and for Article, through their
\* hints, and nothing scores higher: Thread, declared first, is found.
C17_Witness ==
  /\ fnPc = "out"
  /\ fnIn.query = <<"u","r","l">>
  /\ Scored[3] = Scored[4]
  /\ Scored[3] > 0
  /\ \A other \in 0..(NumOptions - 1) : Scored[other] <= Scored[3]
  /\ fnOut.found = Some(3)

\* C18: match_palette returns nothing exactly when the query is empty or
\* only whitespace, or no option meets any criterion for it; otherwise it
\* returns an option with the highest score.  "trend" finds Trends,
\* "profile" finds Profile, "zzz" finds nothing.
C18_NoneExactlyWhenNothingMatches ==
  fnPc = "out" =>
    \E met \in {Met}, scored \in {Scored} :
      /\ fnOut.found = None <=>
           \/ trim(fnIn.query) = << >>
           \/ \A index \in 0..(NumOptions - 1) : met[index] = {}
      /\ fnOut.found # None =>
           /\ fnOut.found[1] \in 0..(NumOptions - 1)
           /\ \A other \in 0..(NumOptions - 1) :
                scored[other] <= scored[fnOut.found[1]]
      /\ fnIn.query = <<"t","r","e","n","d">> => fnOut.found = Some(1)
      /\ fnIn.query = <<"p","r","o","f","i","l","e">> => fnOut.found = Some(2)
      /\ fnIn.query = <<"z","z","z">> => fnOut.found = None

\* A query of one space, a text every hint contains, finds nothing.
C18_Witness ==
  /\ fnPc = "out"
  /\ fnIn.query = <<" ">>
  /\ \E index \in 0..(NumOptions - 1) : contains(MENU_OPTIONS[index + 1].hint, fnIn.query)
  /\ fnOut.found = None

\* The highest criterion an option meets (the lowest number).
BestMet(criteria) == CHOOSE c \in criteria : \A d \in criteria : c <= d

\* C19: an option whose best criterion stands higher in the order exact key,
\* exact label, exact alias, label prefix, alias prefix, label substring,
\* hint substring is never outscored by an option meeting only criteria
\* that stand lower.
C19_HigherCriterionNeverOutscored ==
  fnPc = "out" =>
    \E met \in {Met}, scored \in {Scored} :
      \A index \in 0..(NumOptions - 1), other \in 0..(NumOptions - 1) :
        ( /\ met[index] # {}
          /\ \A c \in met[other] : c > BestMet(met[index]) )
        => scored[other] <= scored[index]

\* For "t" Trends meets the exact alias and Thread only the label prefix and
\* what stands below it; Trends scores more and is found.
C19_Witness ==
  /\ fnPc = "out"
  /\ fnIn.query = <<"t">>
  /\ BestMet(Met[1]) = 3
  /\ BestMet(Met[3]) = 4
  /\ Scored[3] < Scored[1]
  /\ fnOut.found = Some(1)

-----------------------------------------------------------------------------
(* mcp.rs: the figures of a budget denial                                  *)

DenialPayload == L.written[1].error.message.object

\* C20: in every BUDGET_DENIED payload the figures are those of the cost
\* tracker at the call, and the remaining amount is the limit less the spend,
\* zero when the spend is above the limit, never negative.
C20_RemainingClampedAtZero ==
  ( LastIsCall /\ Denied("BUDGET_DENIED") ) =>
    /\ DenialPayload.spent_usd = L.budget.spent
    /\ DenialPayload.limit_usd = L.budget.limit
    /\ DenialPayload.remaining_usd
         = Max(DenialPayload.limit_usd - DenialPayload.spent_usd, 0)
    /\ DenialPayload.remaining_usd >= 0

\* A denial with the spend above the limit reports nothing remaining.
C20_Witness ==
  /\ LastIsCall
  /\ Denied("BUDGET_DENIED")
  /\ DenialPayload.spent_usd > DenialPayload.limit_usd
  /\ DenialPayload.remaining_usd = 0

-----------------------------------------------------------------------------
(* mcp.rs: the initialized flag                                            *)

\* C21 as stated, its second part: once the initialized notification has
\* been handled the flag is true.
C21_InitializedNotificationSetsFlag ==
  ( last # None /\ IsMethod(L.line, "initialized") ) => initialized

\* The response lines and the effects of handling the line held, by a server
\* whose flag has the given value.
HandledWithFlag(flag, api) ==
  LET h == handle_message(cur[1], flag, policy_mode, enforce_budget,
                          check_budget(spent, BudgetLimit), api_base_url_set, api)
  IN  [written |-> written_lines(h.ret), effects |-> h.effects]

\* C22: a server that has handled initialize and one that has not, alike in
\* policy mode, budget setting and external state, answer every request
\* with the same response.
C22_FlagChangesNoResponse ==
  pc = "handle" =>
    \A api \in ApiOutcomes : HandledWithFlag(TRUE, api) = HandledWithFlag(FALSE, api)

\* A server that has handled initialize is about to handle a tools/call that
\* names a catalog tool; a server with the flag unset would answer it with a
\* result as well.
C22_Witness ==
  /\ pc = "handle"
  /\ initialized
  /\ IsNamedCall(cur[1])
  /\ cur[1].params[1].name[1] = "xint_search"
  /\ \E api \in ApiOutcomes :
       "result" \in DOMAIN HandledWithFlag(FALSE, api).written[1]

-----------------------------------------------------------------------------
(* tui.rs: the remembered values of the session                            *)

ExitedWithSuccess ==
  sub_result' = Some(RunOk) /\ exit_status' = Some([code |-> Some(0)])

\* C23: a step of run changes the remembered last-used values (search query,
\* location, username, tweet reference, article URL, last command) only
\* when the subcommand it ran has exited with success; they stay as they
\* were when the spawn fails or the child exits with failure.
C23_RememberedOnlyAfterSuccess ==
  [][ rememberedVars' # rememberedVars => ExitedWithSuccess ]_vars

\* The arms that require a value: key, remembered value, message.
RequiredArms ==
  { [key |-> <<"1">>, previous |-> last_search, message |-> "query is required"],
    [key |-> <<"3">>, previous |-> last_username, message |-> "username is required"],
    [key |-> <<"4">>, previous |-> last_tweet_ref, message |-> "tweet id/url is required"],
    [key |-> <<"5">>, previous |-> last_article_url, message |-> "article url is required"] }

OnlyAt(text) == text # << >> /\ \A i \in 1..Len(text) : text[i] = "@"

\* C24: in the arms of Search, Profile, Thread and Article, when nothing was
\* remembered and the text typed is empty or blank (or, for Profile, only
\* '@'), no subcommand is run, the status is the arm's "... is required"
\* message, the remembered values and the output history are unchanged and
\* run is back at the menu.
C24_RequiredValueMissing ==
  [][ \A arm \in RequiredArms :
        ( /\ tuiPc = "chosen"
          /\ typed_last' # None
          /\ arm.previous = None
          /\ ChosenKey(arm.key)
          /\ \/ trim(typed_last'[1]) = << >>
             \/ arm.key = <<"3">> /\ OnlyAt(trim(typed_last'[1])) )
        => ( /\ sub_result' = None
             /\ last_status' = Some(<<arm.message>>)
             /\ rememberedVars' = rememberedVars
             /\ last_output_lines' = last_output_lines
             /\ tuiPc' = "loop"
             /\ run_result' = None ) ]_vars

\* Profile was chosen with no username remembered and "@" was typed, after
\* an earlier command had left its output.
C24_Witness ==
  /\ tuiPc = "loop"
  /\ typed_last = Some(<<"@">>)
  /\ selRet # None
  /\ selRet.ok
  /\ normalize_choice(selRet.value) = Some(<<"3">>)
  /\ last_username = None
  /\ last_status = Some(<<"username is required">>)
  /\ last_output_lines # << >>
  /\ last_command # None

-----------------------------------------------------------------------------
(* mcp.rs: how a denial is answered                                        *)

DeniedByPolicy ==
  ~policy_is_allowed(policy_mode, tool_required_policy(CallName))

DeniedByBudget ==
  /\ ~DeniedByPolicy
  /\ enforce_budget
  /\ tool_budget_guarded(CallName)
  /\ ~L.budget.allowed

\* C25: a tools/call the policy gate or the budget gate denies is answered
\* with one response line that handle_message returns itself: it carries
\* the request's id and, as the text of its message, the JSON payload with
\* the code, the tool name and the modes or the spend figures.
C25_DenialIsAResponse ==
  ( LastIsCall /\ (DeniedByPolicy \/ DeniedByBudget) ) =>
    /\ AnsweredError
    /\ L.written[1].error.message.kind = "json"
    /\ DenialPayload.tool = CallName
    /\ DeniedByPolicy =>
         /\ DenialPayload.code = "POLICY_DENIED"
         /\ DenialPayload.policy_mode = policy_mode
         /\ DenialPayload.required_mode = tool_required_policy(CallName)
    /\ DeniedByBudget =>
         /\ DenialPayload.code = "BUDGET_DENIED"
         /\ DenialPayload.spent_usd = L.budget.spent
         /\ DenialPayload.limit_usd = L.budget.limit
         /\ DenialPayload.remaining_usd = L.budget.remaining

\* xint_bookmarks called with id 1 in read-only mode: the response with id 1
\* carries the POLICY_DENIED payload naming the mode required.
C25_Witness ==
  /\ LastIsCall
  /\ CallName = "xint_bookmarks"
  /\ L.line.id = Some(1)
  /\ L.written[1].id = Some(1)
  /\ L.written[1].error.message.kind = "json"
  /\ DenialPayload.code = "POLICY_DENIED"
  /\ DenialPayload.required_mode = "engagement"

-----------------------------------------------------------------------------
(* mcp.rs: the shape of the response lines                                 *)

\* C26: every response line written has jsonrpc "2.0", the id of the request
\* it answers, and exactly one of result and error, also when the request
\* lacks params, a tool name or a method.
C26_EveryResponseCarriesTheId ==
  last # None =>
    \A i \in 1..Len(L.written) :
      /\ L.written[i].jsonrpc = "2.0"
      /\ "id" \in DOMAIN L.written[i]
      /\ L.written[i].id = L.line.id
      /\ ("result" \in DOMAIN L.written[i]) # ("error" \in DOMAIN L.written[i])

\* The line held is no JSON, or JSON without a string "method".
Malformed(line) == ~line.json \/ line.method = None

\* C27: a line that is no valid JSON, or JSON without a string method, is
\* answered with one JSON-RPC error object with a numeric code; the
\* server's fields are unchanged, nothing else is done, and the loop is back
\* at reading the next line.
C27_MalformedLineAnswered ==
  [][ ( HandlesLine /\ Malformed(cur[1]) )
      => ( /\ Len(last'[1].written) = 1
           /\ last'[1].written[1].jsonrpc = "2.0"
           /\ "error" \in DOMAIN last'[1].written[1]
           /\ "result" \notin DOMAIN last'[1].written[1]
           /\ last'[1].written[1].error.code \in Int
           /\ last'[1].written[1].error.message.kind = "text"
           /\ last'[1].effects = NoEffects
           /\ ServerFieldsUnchanged
           /\ pc' = "read" ) ]_vars

\* A line that is no JSON was answered with code -32603 and the loop can
\* read another line.
C27_Witness ==
  /\ last # None
  /\ ~L.line.json
  /\ Len(L.written) = 1
  /\ L.written[1].error.code = -32603
  /\ pc = "read"
  /\ nRead < MaxLines

-----------------------------------------------------------------------------
(* mcp.rs: the Package API behind the package tools                        *)

PackageTools ==
  { "xint_package_create", "xint_package_status", "xint_package_query",
    "xint_package_refresh", "xint_package_search", "xint_package_publish" }

IsTextError(response, first) ==
  /\ DOMAIN response = { "jsonrpc", "id", "error" }
  /\ response.error.message.kind = "text"
  /\ response.error.message.parts[1] = first

IsResultOf(response, body) ==
  /\ DOMAIN response = { "jsonrpc", "id", "result" }
  /\ response.result.content = Content(<< "pretty", body >>)

\* C28: a call of a package tool that passed the gates and the checks of
\* its arguments ends, for each failure of the Package API (base URL not
\* set, request not sent, body not read, status not a success, body no
\* JSON), with an error response whose message is the describing text, and
\* for a success status with an empty body with the empty object as result;
\* in every case one line answers the request, the server's fields are
\* unchanged and the loop is back at reading.
C28_PackageApiFailuresAnswered ==
  [][ ( /\ HandlesLine
        /\ IsNamedCall(cur[1])
        /\ cur[1].params[1].name[1] \in PackageTools
        /\ last'[1].effects.executed
        /\ ~( Len(last'[1].written) = 1 /\ IsTextError(last'[1].written[1], "Missing ") ) )
      => ( /\ Len(last'[1].written) = 1
           /\ last'[1].written[1].id = cur[1].id
           /\ ServerFieldsUnchanged
           /\ pc' = "read"
           /\ LET response == last'[1].written[1]
                  answer == last'[1].api
              IN  IF ~api_base_url_set
                    THEN /\ IsTextError(response, "XINT_PACKAGE_API_BASE_URL not set")
                         /\ ~last'[1].effects.sent
                    ELSE /\ answer # None
                         /\ last'[1].effects.sent
                         /\ CASE answer[1] = "send_failed" ->
                                   IsTextError(response, "Package API request failed")
                              [] answer[1] = "body_read_failed" ->
                                   IsTextError(response, "Package API body read failed")
                              [] answer[1] = "http_error" ->
                                   IsTextError(response, "Package API ")
                              [] answer[1] = "bad_json" ->
                                   IsTextError(response, "Package API JSON decode failed")
                              [] answer[1] = "empty_body" -> IsResultOf(response, "{}")
                              [] answer[1] = "json" -> IsResultOf(response, "json") ) ]_vars

\* xint_package_status got a success status with an empty body: the result
\* is the empty object, and the loop can read another line.
C28_Witness ==
  /\ LastIsCall
  /\ CallName = "xint_package_status"
  /\ L.api = Some("empty_body")
  /\ IsResultOf(L.written[1], "{}")
  /\ pc = "read"
  /\ nRead < MaxLines

-----------------------------------------------------------------------------
(* mcp.rs: the order of the gates                                          *)

\* C29: the gates run in the order policy, budget, execution.  A call the
\* policy gate denies is answered POLICY_DENIED without the cost tracker
\* being asked; a call either gate denies is answered as denied without
\* execute_tool being reached, so with no check of its arguments and no
\* HTTP request, also when its arguments are missing.
C29_GatesInOrder ==
  LastIsCall =>
    /\ DeniedByPolicy =>
         /\ Denied("POLICY_DENIED")
         /\ ~L.effects.consulted
         /\ ~L.effects.executed
         /\ ~L.effects.sent
    /\ DeniedByBudget =>
         /\ Denied("BUDGET_DENIED")
         /\ L.effects.consulted
         /\ ~L.effects.executed
         /\ ~L.effects.sent
    /\ L.effects.executed => ~DeniedByPolicy /\ ~DeniedByBudget

\* xint_package_refresh without arguments, within policy and over budget: the
\* answer is the budget denial, not "Missing package_id".
C29_Witness ==
  /\ LastIsCall
  /\ CallName = "xint_package_refresh"
  /\ CallArgs = ArgsEmpty
  /\ DeniedByBudget
  /\ Denied("BUDGET_DENIED")
  /\ ~L.effects.executed

-----------------------------------------------------------------------------
(* mcp.rs: which tools the policy gate denies                              *)

EngagementTools == { "xint_bookmarks", "xint_diff", "xint_package_publish" }

\* C30: in read-only mode a tools/call is answered POLICY_DENIED exactly when
\* it names xint_bookmarks, xint_diff or xint_package_publish; every other
\* name, registered or not, passes the policy gate.  In engagement mode no
\* tools/call is answered POLICY_DENIED.
C30_PolicyDeniedTools ==
  LastIsCall =>
    /\ policy_mode = "read_only" =>
         ( Denied("POLICY_DENIED") <=> CallName \in EngagementTools )
    /\ policy_mode = "engagement" => ~Denied("POLICY_DENIED")

\* In read-only mode xint_diff was denied with the mode it requires.
C30_Witness ==
  /\ LastIsCall
  /\ policy_mode = "read_only"
  /\ CallName = "xint_diff"
  /\ Denied("POLICY_DENIED")
  /\ DenialPayload.policy_mode = "read_only"

-----------------------------------------------------------------------------
(* mcp.rs: the server started with --no-budget-guard                       *)

\* C31: when the server runs with the budget guard disabled, handling a line
\* never asks the cost tracker and no tools/call is answered BUDGET_DENIED,
\* whatever the day's spend is.
C31_NoGuardNoBudgetDenial ==
  ( ~enforce_budget /\ last # None ) =>
    /\ ~L.effects.consulted
    /\ LastIsCall => ~Denied("BUDGET_DENIED")

\* With the guard off and the budget used up, a guarded tool within policy
\* was executed.
C31_Witness ==
  /\ ~enforce_budget
  /\ LastIsCall
  /\ tool_budget_guarded(CallName)
  /\ ~DeniedByPolicy
  /\ ~L.budget.allowed
  /\ L.effects.executed

-----------------------------------------------------------------------------
(* mcp.rs: the catalog and the dispatcher                                  *)

\* The last call was answered "Unknown tool: <name>".
AnsweredUnknownTool ==
  /\ AnsweredError
  /\ L.written[1].error.message = Text(<< "Unknown tool: ", CallName >>)

\* C32: the catalog of tools/list and the arms of execute_tool name the same
\* tools: a call that passed the gates is answered "Unknown tool" exactly
\* when its name is not in the catalog.
C32_CatalogMatchesDispatcher ==
  ( LastIsCall /\ L.effects.executed ) =>
    ( AnsweredUnknownTool <=> CallName \notin SeqRange(get_tools) )

\* The last entry of the catalog was called and answered with a result.
C32_Witness ==
  /\ LastIsCall
  /\ L.effects.executed
  /\ CallName = get_tools[Len(get_tools)]
  /\ CallName = "xint_costs"
  /\ DOMAIN L.written[1] = { "jsonrpc", "id", "result" }

-----------------------------------------------------------------------------
(* tui.rs: the selected menu index                                         *)

ValidIndex(index) == index \in 0..(NumOptions - 1)

\* C33: the selected index is always an index of MENU_OPTIONS, also after a
\* palette selection; Up from the first option selects the last and Down
\* from the last selects the first; Down pressed after Up, and Up pressed
\* after Down, select the option that was selected before.
C33_SelectionStaysInMenu ==
  [][ /\ ValidIndex(active_index) /\ ValidIndex(active_index')
      /\ KeyUp =>
           /\ active_index = 0 => active_index' = NumOptions - 1
           /\ index_down(active_index') = active_index
      /\ KeyDown =>
           /\ active_index = NumOptions - 1 => active_index' = 0
           /\ index_up(active_index') = active_index ]_vars

\* Inside the key loop the last option is selected: Up has wrapped to it
\* from the first option, or Down has stepped through the menu to it.
C33_Witness ==
  /\ tuiPc = "select"
  /\ raw_mode
  /\ active_index = NumOptions - 1
  /\ index_down(active_index) = 0

-----------------------------------------------------------------------------
(* tui.rs: the scroll offset of the Output tab                             *)

\* How many lines of the history the output filter lets through.
FilteredCount(lines, search) ==
  LET query == CHOOSE text \in {to_ascii_lowercase(trim(search))} : TRUE
  IN  IF query = << >> THEN Len(lines)
      ELSE Cardinality({ i \in 1..Len(lines) :
                           contains(to_ascii_lowercase(lines[i]), query) })

\* The largest offset a terminal of this size shows: max(0, filtered - viewport).
OffsetBound(lines, search, size) ==
  Max(0, FilteredCount(lines, search) - viewport_of(size))

\* The command was started: run_subcommand did not fail before or at the spawn.
ChildWasSpawned ==
  /\ sub_result' # None
  /\ sub_result'[1].ok \/ sub_result'[1].err \notin {"current_exe", "spawn"}

\* The filter prompt was answered: the handler got past its three `?`.
FilterWasSet ==
  \/ tuiPc' = "select"
  \/ selRet' # None /\ ~selRet'.ok /\ selRet'.err = "render_dashboard"

\* C34: PageUp and PageDown act on the Output tab only; there PageUp adds 10
\* to the offset and PageDown takes 10 off, not below 0, before the render
\* clamps it.  Inside the key loop the offset changes only by a render of the
\* Output tab, which leaves it at most max(0, filtered lines - viewport).
\* Setting or clearing the filter, and starting a child, leave it at 0.
C34_ScrollOffsetBounded ==
  [][ /\ KeyPageUp =>
           /\ tab = "Output"
           /\ \E size \in TermSizes :
                output_offset' =
                  Min(output_offset + 10,
                      OffsetBound(last_output_lines, output_search, size))
      /\ KeyPageDown =>
           /\ tab = "Output"
           /\ output_offset' >= 0
           /\ \E size \in TermSizes :
                output_offset' =
                  Min(Max(output_offset - 10, 0),
                      OffsetBound(last_output_lines, output_search, size))
      /\ ( Selecting /\ output_offset' # output_offset ) => tab' = "Output"
      /\ ( tuiPc' = "select" /\ tab' = "Output" ) =>
           \E size \in TermSizes :
             output_offset' <= OffsetBound(last_output_lines', output_search', size)
      /\ ( KeyFilter /\ FilterWasSet ) => output_offset' = 0
      /\ ( RunHelp /\ ChildWasSpawned ) => output_offset' = 0 ]_vars

\* PageUp on a full history in a narrow terminal: the render has clamped the
\* offset to the lines above the viewport.
C34_Witness ==
  /\ tuiPc = "select"
  /\ tab = "Output"
  /\ output_search = << >>
  /\ Len(last_output_lines) = MaxChildLines
  /\ output_offset > 0
  /\ output_offset = MaxChildLines - 20

-----------------------------------------------------------------------------
(* tui.rs: what run_subcommand clears, and when                            *)

\* run_subcommand is entered by this step.
SubEntered == tuiPc = "chosen" /\ tuiPc' # "chosen"

\* C35: when current_exe or the spawn fails, run_subcommand leaves the
\* history, the scroll offset and the status of the previous run as they
\* were; when the child was spawned the history is empty and the offset 0.
\* No other step of run_subcommand shortens the history or moves the offset.
C35_ClearedOnlyAfterSpawn ==
  [][ /\ ( SubEntered /\ tuiPc' = "exited" ) =>
           UNCHANGED << last_output_lines, output_offset, last_status >>
      /\ ( SubEntered /\ tuiPc' # "exited" ) =>
           /\ tuiPc' = "sub_recv"
           /\ last_output_lines' = << >>
           /\ output_offset' = 0
           /\ last_status' = last_status
      /\ ( Len(last_output_lines') < Len(last_output_lines)
             \/ output_offset' # output_offset ) =>
           ( SubEntered /\ tuiPc' = "sub_recv" ) ]_vars

\* The spawn failed after a run that had left a full history, scrolled up:
\* the history, the offset and the status are still there.
C35_Witness ==
  /\ tuiPc = "exited"
  /\ sub_result = Some(RunErr("spawn"))
  /\ Len(last_output_lines) = MaxChildLines
  /\ output_offset > 0
  /\ last_status = final_status([code |-> Some(0)])

-----------------------------------------------------------------------------
(* tui.rs: the character shortcuts of the key loop                         *)

\* The one-character names of an option: its key and its aliases of length 1.
OneCharNames(i) ==
  { name[1] : name \in { n \in {MENU_OPTIONS[i].key} \cup SeqRange(MENU_OPTIONS[i].aliases) :
                           Len(n) = 1 } }

\* The step the key loop takes when this character is pressed: the first
\* arm of the match that takes it (tui.rs:821-883).
Pressed(ch) ==
  CASE ch = "q" -> KeyQuit
    [] ch \in TabShortcutChars -> KeyTabShortcutOn(ch)
    [] OTHER -> KeyCharOn(ch)

\* C36: in the key loop, pressing the character that is an option's key or
\* one of its one-character aliases ends the selection with that option's
\* key (or with the error of clearing the screen).
C36_CharacterSelectsItsOption ==
  [][ \A i \in 1..NumOptions : \A ch \in OneCharNames(i) :
        Pressed(ch) =>
          /\ tuiPc' # "select"
          /\ selRet' \in { SelOk(MENU_OPTIONS[i].key), SelErr("execute") } ]_vars

-----------------------------------------------------------------------------
(* tui.rs: Trends with a blank location                                    *)

\* C37: whenever the Trends arm is answered with a blank location, the child
\* is invoked as `trends` with no location argument, whatever location was
\* used before.
C37_BlankLocationIsWorldwide ==
  [][ ( /\ ChosenKey(<<"2">>)
        /\ typed_last' # None
        /\ trim(typed_last'[1]) = << >> )
      => sub_args' = Some(<< <<"trends">> >>) ]_vars

-----------------------------------------------------------------------------
(* tui.rs: run_subcommand returns                                          *)

\* C38: once the child has exited, run_subcommand returns: the polling loop
\* sees the exit, the reader threads reach the end of their pipes and are
\* joined, and the channel is drained, in every interleaving of the threads.
C38_SubcommandReturns ==
  ( InSub /\ child_exited ) ~> ~InSub

\* run_subcommand returned Ok after an exit that try_wait saw while lines
\* were still in the pipes or the channel: the readers were joined and the
\* channel was drained.
C38_Witness ==
  /\ SubReturnedOk
  /\ child_exited
  /\ left_at_exit > 0
  /\ \A s \in Streams : reader[s] = "done" /\ pipe[s] = << >>
  /\ channel = << >>

-----------------------------------------------------------------------------
(* tui.rs: the session at the end of standard input                        *)

\* C39: without a terminal, once standard input is at its end, run
\* eventually returns.
C39_SessionEndsAtEof ==
  ( ~is_tty /\ stdin_eof ) ~> ( tuiPc = "exited" )

=============================================================================
